---- MODULE Spec2Model ----
(***************************************************************************)
(* Model of the m-ld replication core: the SU-Set dataset                  *)
(* (src/src/dataset/SuSetDataset.ts), the quad-store dataset lock          *)
(* (src/src/dataset/index.ts) and the delta encoding                       *)
(* (src/unnamed/part_000, MeldEncoding).                                   *)
(*                                                                         *)
(* A dataset is one quad store holding three graphs.  A quad is a tagged   *)
(* tuple:                                                                  *)
(*   <<"data", triple>>          default graph, the user's triples         *)
(*   <<"tids", triple, tid>>     qs:tids graph, one HashTid per triple/tid *)
(*   <<"all", tid>>              qs:tids graph, the qs:all singleton       *)
(*   <<"entry", tick, entry>>    qs:control graph, a journal entry         *)
(*   <<"next", tick, tick2>>     qs:control graph, entry.next pointer      *)
(*   <<"tail", tick>>            qs:control graph, qs:journal tail         *)
(*   <<"time", time>>            qs:control graph, qs:journal time         *)
(* A patch is a pair of quad sets, applied to the store in one batch.      *)
(***************************************************************************)
EXTENDS Integers, Sequences, FiniteSets, TLC

(* ------------------------------ bounds --------------------------------- *)
\* local write transactions requested in one behaviour, over all clones
MaxTxn == 2
\* redeliveries of an already applied delta by the transport
MaxRedeliver == 1
\* triples, and tids, in one batch of a snapshot; the code's bufferCount(10)
\* would put the whole of a dataset this small into one batch
SnapshotBatch == 2
\* calls of QuadStoreDataset.transact in one behaviour
MaxCalls == 3
\* the times a clone's remotes may be started
MaxStart == 2
\* the messages published on the operations topic
MaxPublish == 2
\* the requests sent and the changes of presence, together
MaxSend == 7
\* the requests for which a response is awaited
MaxRequest == 1
\* the revup requests of one revupFrom
MaxAsk == 4
\* the other requests and the changes of presence while a revup is asked for
MaxEvent == 5
\* the changes of presence that the listener of the remotes hears of
MaxChange == 4
\* the exchanges of two reification statements before unreify
MaxSwap == 2
\* the reification statements of a map: two entries of two tids each
MaxStatement == 12
\* the replies that come from outside the model
MaxForeign == 2
\* the data a streamed observable emits before it ends
MaxDatum == 2
\* the notifications of one stream whose conversion or publication fails
MaxFail == 1
\* SuSetDatasets made, storage locations, and refused initialises of one dataset
MaxInstance == 3
MaxLocation == 2
MaxRefuse == 1
\* writes of the clones that only insert
MaxWrite == 3
\* the versions of the encoded deltas that are decoded: 0..MaxVersion
MaxVersion == 2
\* write procedures given to a clone, and writes of one procedure
MaxProc == 2
MaxProcWrite == 2
\* deltas committed by a clone and given to its remotes
MaxDelta == 3

(* ------------------------------ domains -------------------------------- *)
\* clones that write and exchange deltas
Clone == {"A", "B"}
\* a further dataset, empty, that is only ever the target of applySnapshot
Target == "C"
\* the clone that answers the requests of a new or returning clone
Responder == "A"
\* the clone that returns and asks for the operations it has missed
Requester == "B"
Dataset == Clone \cup {Target}

Fred == "fred"
NameProp == "name"
HeightProp == "height"
\* the values of the property in the tests, 'Flintstone' and 'Fred': a value
\* is its rank in lexicographic order ('Flintstone' < 'Fred')
Flintstone == 1
FredValue == 2
\* the triples a write may mention; "name" is the single-valued property
Triple == {[s |-> Fred, p |-> NameProp, o |-> Flintstone],
           [s |-> Fred, p |-> NameProp, o |-> FredValue],
           [s |-> Fred, p |-> HeightProp, o |-> 5]}

(* ------------------------------ TreeClock ------------------------------ *)
\* A tree clock over a fixed set of forked identities is a vector of ticks,
\* one leaf per identity.
ZeroTime == [d \in Dataset |-> 0]
Ticks(time, id) == time[id]
Ticked(time, id) == [time EXCEPT ![id] = @ + 1]
Merge(a, b) == [d \in Dataset |-> IF a[d] >= b[d] THEN a[d] ELSE b[d]]
\* time.anyLt(other, 'includeIds'): some leaf of other exceeds the leaf of time
AnyLt(time, other) == \E d \in Dataset : time[d] < other[d]
\* a happened before b
TimeLeq(a, b) == \A d \in Dataset : a[d] <= b[d]

(* ------------------------------ the store ------------------------------ *)
EmptyPatch == [oldQuads |-> {}, newQuads |-> {}]
\* PatchQuads.concat
PatchConcat(p, q) ==
  [oldQuads |-> p.oldQuads \cup q.oldQuads, newQuads |-> p.newQuads \cup q.newQuads]
\* RdfStore.patch(oldQuads, newQuads): one batch, deletions then insertions
StorePatch(st, patch) == (st \ patch.oldQuads) \cup patch.newQuads

GraphQuads(st, g) == {q \in st : q[1] = g}
\* the default graph
DataOf(st) == {q[2] : q \in GraphQuads(st, "data")}
\* findTripleTids(tripleId): the HashTid quads of one triple
findTripleTids(st, t) == {q \in GraphQuads(st, "tids") : q[2] = t}
TidsOf(st, t) == {q[3] : q \in findTripleTids(st, t)}
AllTidsOf(st) == {q[2] : q \in GraphQuads(st, "all")}
\* tidsGraph.find1({'@id': 'qs:all', tid: [tid]})
\* a dataset that never recognises a tid
knowsTid_Never(st, tid) == FALSE
knowsTid(st, tid) == <<"all", tid>> \in st

(* --------------------------- delta encoding ---------------------------- *)
\* MeldEncoding.reifyTriplesTids: one blank node per (triple, tids) pair, with
\* a type, a subject, a predicate and an object quad and one quad per tid.
\* The fresh blank node is named by the pair it reifies.
reifyTriplesTids(triplesTids) ==
  UNION {LET rid == <<tt.triple, tt.tids>> IN
           {<<"type", rid, "Statement">>,
            <<"subject", rid, tt.triple.s>>,
            <<"predicate", rid, tt.triple.p>>,
            <<"object", rid, tt.triple.o>>}
           \cup {<<"tid", rid, tid>> : tid \in tt.tids}
         : tt \in triplesTids}

\* unreify: groups the reification quads by blank node and rebuilds, for
\* each, the triple and the list of tids
unreify(reifications) ==
  LET rids == {q[2] : q \in reifications}
      obj(rid, pred) == (CHOOSE q \in reifications : q[1] = pred /\ q[2] = rid)[3]
  IN  {[triple |-> [s |-> obj(rid, "subject"), p |-> obj(rid, "predicate"),
                    o |-> obj(rid, "object")],
        tids |-> {q[3] : q \in {r \in reifications : r[1] = "tid" /\ r[2] = rid}}]
       : rid \in rids}

DeltaVersion == 1
\* MeldEncoding.newDelta: encoded = [1, del, ins]
newDelta(tid, insert, delete) ==
  [tid |-> tid, insert |-> insert, delete |-> delete,
   encoded |-> <<DeltaVersion, delete, insert>>]
asDelta_InsertsFirst(encoded) ==
  IF encoded[1] # 1
  THEN [error |-> "Encoded delta version not supported"]
  ELSE [insert |-> encoded[2], delete |-> encoded[3]]
\* MeldEncoding.asDelta: [ver, del, ins] = delta, and a version other than 1
\* is thrown as not supported
asDelta(encoded) ==
  IF encoded[1] # 1
  THEN [error |-> "Encoded delta version not supported"]
  ELSE [insert |-> encoded[3], delete |-> encoded[2]]

\* txnDelta: the delta of a transaction, its deletes reified with their tids
txnDelta(tid, insert, deletedTriplesTids) ==
  newDelta(tid, insert, reifyTriplesTids(deletedTriplesTids))

(* ------------------------------ journal -------------------------------- *)
JournalTailTick(st) == (CHOOSE q \in GraphQuads(st, "tail") : TRUE)[2]
JournalTime(st) == (CHOOSE q \in GraphQuads(st, "time") : TRUE)[2]
HasEntry(st, tick) == \E q \in GraphQuads(st, "entry") : q[2] = tick
EntryAt(st, tick) == (CHOOSE q \in GraphQuads(st, "entry") : q[2] = tick)[3]
JournalTail(st) == EntryAt(st, JournalTailTick(st))
Entries(st) == {q[3] : q \in GraphQuads(st, "entry")}
\* entry.next(): the entry this one points to, if any
HasNext(st, tick) == \E q \in GraphQuads(st, "next") : q[2] = tick
NextTick(st, tick) == (CHOOSE q \in GraphQuads(st, "next") : q[2] = tick)[3]

\* hash = H(prev.hash || delta): the injective chain of hashed deltas
HashNext(hash, tid) == Append(hash, tid)

\* SuSetJournalEntry.createNext(delta, localTime, remoteTime?)
createNextEntry(tail, id, delta, localTime, remoteTime) ==
  [tick |-> Ticks(localTime, id), localTime |-> localTime, remoteTime |-> remoteTime,
   tid |-> delta.tid, encoded |-> delta.encoded, hash |-> HashNext(tail.hash, delta.tid)]
createNextPatch(tail, entry) ==
  [oldQuads |-> {}, newQuads |-> {<<"entry", entry.tick, entry>>,
                                  <<"next", tail.tick, entry.tick>>}]
\* SuSetJournal.setNext(entry, localTime): moves the tail and saves the time
setNext(st, entry, localTime) ==
  [oldQuads |-> GraphQuads(st, "tail") \cup GraphQuads(st, "time"),
   newQuads |-> {<<"tail", entry.tick>>, <<"time", localTime>>}]

\* the journal of a new dataset: one head entry with no delta
HeadEntry(time, id, hash) ==
  [tick |-> Ticks(time, id), localTime |-> time, remoteTime |-> <<>>,
   tid |-> <<>>, encoded |-> <<DeltaVersion, {}, {}>>, hash |-> hash]
\* SuSetJournal.reset(lastHash, lastTime, localTime): the journal replaced by
\* a single tail entry with no delta, carrying the given hash and time
journalReset(st, id, lastHash, lastTime, localTime) ==
  LET entry == [HeadEntry(localTime, id, lastHash) EXCEPT !.remoteTime = <<lastTime>>]
  IN  [oldQuads |-> GraphQuads(st, "entry") \cup GraphQuads(st, "next")
                      \cup GraphQuads(st, "tail") \cup GraphQuads(st, "time"),
       newQuads |-> {<<"entry", entry.tick, entry>>, <<"tail", entry.tick>>,
                     <<"time", localTime>>}]
\* entry.time: the time of the message the entry journals; of a remote
\* delta the time it was sent with, else the local time
EntryTime(entry) ==
  IF entry.remoteTime = <<>> THEN entry.localTime ELSE entry.remoteTime[1]
JournalQuads(entry, time) ==
  {<<"entry", entry.tick, entry>>, <<"tail", entry.tick>>, <<"time", time>>}

(* ----------------------------- constraint ------------------------------ *)
\* SingleValued(name): the values of the property that a subject would have,
\* the values already stored together with the values the update inserts
NameTriples(ts) == {t \in ts : t.p = NameProp}
\* (the values the update inserts alone, the stored ones not read)
affected_InsertsOnly(update, st, s) ==
  {t \in NameTriples(update.insert) : t.s = s}
affected(update, st, s) ==
  {t \in NameTriples(update.insert \cup DataOf(st)) : t.s = s}
UpdateSubjects(update) == {t.s : t \in NameTriples(update.insert)}
isMultiValued(ts) == Cardinality(ts) > 1
\* SingleValued.check: TRUE when the update passes
check(update, st) ==
  \A s \in UpdateSubjects(update) : ~isMultiValued(affected(update, st, s))
\* SingleValued.apply: the triples the repair deletes (empty: no repair);
\* of the values of a subject the greatest survives
MaxValue_Least(ts) == CHOOSE t \in ts : \A u \in ts : t.o <= u.o
MaxValue(ts) == CHOOSE t \in ts : \A u \in ts : u.o <= t.o
\* (the stored value of a subject survives, whatever the values inserted)
constraintApply_KeepStored(update, st) ==
  UNION {LET vals == affected(update, st, s)
             stored == {t \in NameTriples(DataOf(st)) : t.s = s}
         IN  IF isMultiValued(vals)
             THEN IF stored # {} THEN vals \ stored ELSE vals \ {MaxValue(vals)}
             ELSE {}
         : s \in UpdateSubjects(update)}
constraintApply(update, st) ==
  UNION {LET vals == affected(update, st, s)
         IN  IF isMultiValued(vals) THEN vals \ {MaxValue(vals)} ELSE {}
         : s \in UpdateSubjects(update)}

(* ------------------------ SuSetDataset helpers ------------------------- *)
toDomainQuad(t) == <<"data", t>>
TriplesOf(quads) == {q[2] : q \in quads}
asUpdate_Zero(time, id, patch) ==
  [ticks |-> 0, delete |-> TriplesOf(patch.oldQuads),
   insert |-> TriplesOf(patch.newQuads)]
\* asUpdate(time, patch): the update notified for a patch
asUpdate(time, id, patch) ==
  [ticks |-> Ticks(time, id), delete |-> TriplesOf(patch.oldQuads),
   insert |-> TriplesOf(patch.newQuads)]
\* newTid(tid | tid[]): insertion into the qs:all singleton
newTid(tids) == [oldQuads |-> {}, newQuads |-> {<<"all", tid>> : tid \in tids}]
\* newTriplesTid(triples, tid)
newTriplesTid(triples, tid) ==
  [oldQuads |-> {}, newQuads |-> {<<"tids", t, tid>> : t \in triples}]
\* newTripleTids that maps the triple to the first of its tids only
newTripleTids_First(triple, tids) ==
  [oldQuads |-> {},
   newQuads |-> {<<"tids", triple, CHOOSE tid \in tids : TRUE>>}]
\* newTripleTids(triple, tids)
newTripleTids(triple, tids) ==
  [oldQuads |-> {}, newQuads |-> {<<"tids", triple, tid>> : tid \in tids}]
\* findTriplesTids that finds no tid for any triple
findTriplesTids_None(st, quads) ==
  {[triple |-> q[2], tids |-> {}] : q \in quads}
\* findTriplesTids(quads): a TripleTidQuads per quad
findTriplesTids(st, quads) ==
  {[triple |-> q[2], tids |-> findTripleTids(st, q[2])] : q \in quads}
\* TripleTidQuads.asTripleTids
asTripleTids(tt) == [triple |-> tt.triple, tids |-> {q[3] : q \in tt.tids}]
\* txnTidPatches that leaves the TIDs of the deleted triples in the index
txnTidPatches_KeepTids(tid, insert, deletedTriplesTids) ==
  [allTidsPatch |-> newTid({tid}),
   tidPatch |-> newTriplesTid(TriplesOf(insert), tid)]
\* txnTidPatches(tid, insert, deletedTriplesTids)
txnTidPatches(tid, insert, deletedTriplesTids) ==
  [allTidsPatch |-> newTid({tid}),
   tidPatch |-> PatchConcat(newTriplesTid(TriplesOf(insert), tid),
                  [oldQuads |-> UNION {tt.tids : tt \in deletedTriplesTids},
                   newQuads |-> {}])]
\* a transaction patch that leaves the journaling out
transactionPatch_NoJournal(dataPatch, allTidsPatch, tripleTidPatch, journaling) ==
  PatchConcat(PatchConcat(dataPatch, allTidsPatch), tripleTidPatch)
\* transactionPatch: everything of one transaction rolled into one patch
transactionPatch(dataPatch, allTidsPatch, tripleTidPatch, journaling) ==
  PatchConcat(PatchConcat(PatchConcat(dataPatch, allTidsPatch), tripleTidPatch),
              journaling)
\* new DeltaMessage(time, delta.json), stamped by the remotes with the sender
DeltaMessage(id, time, delta) ==
  [from |-> id, time |-> time, tid |-> delta.tid, encoded |-> delta.encoded]

(* ------------------- SuSetDataset.transact (prepare) ------------------- *)
\* a prepare that pushes the update before the constraint is checked
transact_EmitFirst(st, id, tid, time, patch) ==
  LET update == asUpdate(time, id, patch)
      deletedTriplesTids == findTriplesTids(st, patch.oldQuads)
      delta == txnDelta(tid, TriplesOf(patch.newQuads),
                        {asTripleTids(tt) : tt \in deletedTriplesTids})
      tp == txnTidPatches(tid, patch.newQuads, deletedTriplesTids)
      tail == JournalTail(st)
      entry == createNextEntry(tail, id, delta, time, <<>>)
      journaling == PatchConcat(createNextPatch(tail, entry), setNext(st, entry, time))
  IN  [ok |-> check(update, st),
       emits |-> <<[update |-> update, tid |-> tid]>>,
       patch |-> IF check(update, st)
                 THEN transactionPatch(patch, tp.allTidsPatch, tp.tidPatch, journaling)
                 ELSE EmptyPatch,
       value |-> IF check(update, st) THEN <<DeltaMessage(id, time, delta)>> ELSE <<>>]
\* The outcome of the prepare of a local transaction with the given id, time
\* and data patch: whether the constraint check passed, the updates pushed to
\* updateSource, the patch to commit and the DeltaMessage returned.
transact(st, id, tid, time, patch) ==
  LET update == asUpdate(time, id, patch)
      deletedTriplesTids == findTriplesTids(st, patch.oldQuads)
      delta == txnDelta(tid, TriplesOf(patch.newQuads),
                        {asTripleTids(tt) : tt \in deletedTriplesTids})
      tp == txnTidPatches(tid, patch.newQuads, deletedTriplesTids)
      tail == JournalTail(st)
      entry == createNextEntry(tail, id, delta, time, <<>>)
      journaling == PatchConcat(createNextPatch(tail, entry), setNext(st, entry, time))
  IN  IF ~check(update, st)
      THEN [ok |-> FALSE, emits |-> <<>>, patch |-> EmptyPatch, value |-> <<>>]
      ELSE [ok |-> TRUE,
            emits |-> <<[update |-> update, tid |-> tid]>>,
            patch |-> transactionPatch(patch, tp.allTidsPatch, tp.tidPatch, journaling),
            value |-> <<DeltaMessage(id, time, delta)>>]

(* ---------------------- SuSetDataset.applyConstraint ------------------- *)
\* PatchQuads.removeAll('newQuads', quads): the quads it removes
removeAll(patch, quads) == patch.newQuads \cap quads
\* (the insertions that the repair deletes left in the applied patch)
applyConstraint_KeepInserted(st, id, to, localTime, cxTid) ==
  LET result == constraintApply(to.update, st)
      patch == [oldQuads |-> {toDomainQuad(t) : t \in result}, newQuads |-> {}]
      update == asUpdate(localTime, id, patch)
      deletedExistingTidQuads == findTriplesTids(st, patch.oldQuads)
      deleted == removeAll(to.patch, patch.oldQuads)
      deletedTriplesTids ==
        {asTripleTids(tt) : tt \in deletedExistingTidQuads}
          \cup {[triple |-> q[2], tids |-> {to.tid}] : q \in deleted}
      delta == txnDelta(cxTid, TriplesOf(patch.newQuads), deletedTriplesTids)
      tp == txnTidPatches(cxTid, patch.newQuads, deletedExistingTidQuads)
  IN  IF result = {}
      THEN [some |-> FALSE, toPatch |-> to.patch]
      ELSE [some |-> TRUE,
            toPatch |-> to.patch,
            delta |-> delta, update |-> update, patch |-> patch,
            allTidsPatch |-> tp.allTidsPatch, tidPatch |-> tp.tidPatch]
\* (the deleted insertions named by the repair's own transaction id)
applyConstraint_OwnTid(st, id, to, localTime, cxTid) ==
  LET result == constraintApply(to.update, st)
      \* this.write(result): a @delete of fixed quads
      patch == [oldQuads |-> {toDomainQuad(t) : t \in result}, newQuads |-> {}]
      update == asUpdate(localTime, id, patch)
      deletedExistingTidQuads == findTriplesTids(st, patch.oldQuads)
      deleted == removeAll(to.patch, patch.oldQuads)
      deletedTriplesTids ==
        {asTripleTids(tt) : tt \in deletedExistingTidQuads}
          \cup {[triple |-> q[2], tids |-> {cxTid}] : q \in deleted}
      delta == txnDelta(cxTid, TriplesOf(patch.newQuads), deletedTriplesTids)
      tp == txnTidPatches(cxTid, patch.newQuads, deletedExistingTidQuads)
  IN  IF result = {}
      THEN [some |-> FALSE, toPatch |-> to.patch]
      ELSE [some |-> TRUE,
            toPatch |-> [to.patch EXCEPT !.newQuads = @ \ deleted],
            delta |-> delta, update |-> update, patch |-> patch,
            allTidsPatch |-> tp.allTidsPatch, tidPatch |-> tp.tidPatch]
\* The constraint transaction for an applied patch: none when the constraint
\* has nothing to repair; otherwise its delta, update and patches, and the
\* applied patch with the repaired insertions taken out.
applyConstraint(st, id, to, localTime, cxTid) ==
  LET result == constraintApply(to.update, st)
      \* this.write(result): a @delete of fixed quads
      patch == [oldQuads |-> {toDomainQuad(t) : t \in result}, newQuads |-> {}]
      update == asUpdate(localTime, id, patch)
      deletedExistingTidQuads == findTriplesTids(st, patch.oldQuads)
      deleted == removeAll(to.patch, patch.oldQuads)
      deletedTriplesTids ==
        {asTripleTids(tt) : tt \in deletedExistingTidQuads}
          \cup {[triple |-> q[2], tids |-> {to.tid}] : q \in deleted}
      delta == txnDelta(cxTid, TriplesOf(patch.newQuads), deletedTriplesTids)
      tp == txnTidPatches(cxTid, patch.newQuads, deletedExistingTidQuads)
  IN  IF result = {}
      THEN [some |-> FALSE, toPatch |-> to.patch]
      ELSE [some |-> TRUE,
            toPatch |-> [to.patch EXCEPT !.newQuads = @ \ deleted],
            delta |-> delta, update |-> update, patch |-> patch,
            allTidsPatch |-> tp.allTidsPatch, tidPatch |-> tp.tidPatch]

(* --------------------- SuSetDataset.apply (prepare) -------------------- *)
\* a removal of tids that never deletes the triple
tripleTidRemoval_KeepTriple(st, triple, theirTids) ==
  [toRemove |-> {q \in findTripleTids(st, triple) : q[3] \in theirTids},
   oldQuads |-> {}]
\* a removal of all the tids we have, whatever the tids claimed
tripleTidRemoval_AllOurs(st, triple, theirTids) ==
  [toRemove |-> findTripleTids(st, triple), oldQuads |-> {toDomainQuad(triple)}]
\* apply, for one unique deleted triple: the claimed tids subtracted from the
\* tids we have; if no tids are left the triple is deleted from our graph
tripleTidRemoval(st, triple, theirTids) ==
  LET ourTripleTids == findTripleTids(st, triple)
      toRemove == {q \in ourTripleTids : q[3] \in theirTids}
  IN  [toRemove |-> toRemove,
       oldQuads |-> IF Cardinality(toRemove) = Cardinality(ourTripleTids)
                    THEN {toDomainQuad(triple)} ELSE {}]

\* the constraint's update notified before the remote delta's
applyEmits_CxFirst(update, tid, cxn, cxTid) ==
  IF cxn.some
  THEN <<[update |-> cxn.update, tid |-> cxTid], [update |-> update, tid |-> tid]>>
  ELSE <<[update |-> update, tid |-> tid]>>
\* apply: the updates notified, the remote delta's first and then the
\* constraint's
applyEmits(update, tid, cxn, cxTid) ==
  IF cxn.some
  THEN <<[update |-> update, tid |-> tid], [update |-> cxn.update, tid |-> cxTid]>>
  ELSE <<[update |-> update, tid |-> tid]>>

\* (the tail left at the remote delta's entry, the constraint's not skipped to)
applyJournaling_TailAtRemote(st, id, delta, msgTime, arrivalTime, localTime, cxn) ==
  LET tail == JournalTail(st)
      entry == createNextEntry(tail, id, delta, arrivalTime, <<msgTime>>)
      cxEntry == createNextEntry(entry, id, cxn.delta, localTime, <<>>)
  IN  IF cxn.some
      THEN PatchConcat(PatchConcat(createNextPatch(tail, entry),
                                   createNextPatch(entry, cxEntry)),
                       setNext(st, entry, localTime))
      ELSE PatchConcat(createNextPatch(tail, entry), setNext(st, entry, localTime))
\* apply: the journaling of the remote delta and of the constraint
applyJournaling(st, id, delta, msgTime, arrivalTime, localTime, cxn) ==
  LET tail == JournalTail(st)
      entry == createNextEntry(tail, id, delta, arrivalTime, <<msgTime>>)
      cxEntry == createNextEntry(entry, id, cxn.delta, localTime, <<>>)
  IN  IF cxn.some
      THEN PatchConcat(PatchConcat(createNextPatch(tail, entry),
                                   createNextPatch(entry, cxEntry)),
                       setNext(st, cxEntry, localTime))
      ELSE PatchConcat(createNextPatch(tail, entry), setNext(st, entry, localTime))

\* (the repair never returned)
applyValue_Null(id, localTime, cxn) == <<>>
\* apply: the value returned, the constraint's DeltaMessage at the local
\* time, or null (none) when the constraint did nothing
applyValue(id, localTime, cxn) ==
  IF cxn.some THEN <<DeltaMessage(id, localTime, cxn.delta)>> ELSE <<>>

\* The outcome of the prepare of the application of a remote delta: whether
\* there is a patch to commit, the updates pushed to updateSource, the patch
\* and the DeltaMessage returned (none: null).
apply(st, id, msg, arrivalTime, localTime, cxTid) ==
  LET delta == [tid |-> msg.tid, encoded |-> msg.encoded] @@ asDelta(msg.encoded)
      removals == {tripleTidRemoval(st, r.triple, r.tids) : r \in unreify(delta.delete)}
      patch0 == [oldQuads |-> UNION {r.oldQuads : r \in removals},
                 newQuads |-> {toDomainQuad(t) : t \in delta.insert}]
      allTidsPatch0 == newTid({delta.tid})
      tidPatch0 == [oldQuads |-> UNION {r.toRemove : r \in removals}, newQuads |-> {}]
      update == asUpdate(arrivalTime, id, patch0)
      cxn == applyConstraint(st, id, [patch |-> patch0, update |-> update, tid |-> msg.tid],
                             localTime, cxTid)
      \* after applying the constraint, patch new quads might have changed
      patch1 == cxn.toPatch
      tidPatch1 == PatchConcat(tidPatch0, newTriplesTid(TriplesOf(patch1.newQuads), delta.tid))
      journaling == applyJournaling(st, id, delta, msg.time, arrivalTime, localTime, cxn)
  IN  IF knowsTid(st, msg.tid)
      THEN [hasPatch |-> FALSE, emits |-> <<>>, patch |-> EmptyPatch, value |-> <<>>]
      ELSE IF cxn.some
      THEN [hasPatch |-> TRUE,
            emits |-> applyEmits(update, msg.tid, cxn, cxTid),
            patch |-> transactionPatch(PatchConcat(patch1, cxn.patch),
                                       PatchConcat(allTidsPatch0, cxn.allTidsPatch),
                                       PatchConcat(tidPatch1, cxn.tidPatch),
                                       journaling),
            value |-> applyValue(id, localTime, cxn)]
      ELSE [hasPatch |-> TRUE,
            emits |-> applyEmits(update, msg.tid, cxn, cxTid),
            patch |-> transactionPatch(patch1, allTidsPatch0, tidPatch1, journaling),
            value |-> applyValue(id, localTime, cxn)]

(* ------------------------------- state --------------------------------- *)
VARIABLES
  store,        \* store[d]: the quads of dataset d, all graphs
  localTime,    \* localTime[d]: the clock of the clone's engine
  txn,          \* txn[d]: the transaction holding the dataset lock, prepared
                \*   and not yet committed; kind "idle" when the lock is free
  emitted,      \* emitted[d]: the updates pushed to updateSource, in order
  delivered,    \* delivered[d]: how many of them the subscribers were given
  published,    \* the DeltaMessages published on the operations topic
  minted,       \* minted[d]: transaction ids made by uuid() at d
  result,       \* result[d]: how the last finished transact/apply ended
  snapshot,     \* the snapshot being sent to the new clone, if any
  revup,        \* the revup of the returning clone, if any
  qsStore,      \* the quads of a QuadStoreDataset used on its own
  qsCalls,      \* the calls of its transact, in request order
  nTxn, nRedeliver,
  closed,       \* closed[d]: the dataset has been closed
  cx,           \* the last call of the constraint on its own, if any
  retained,     \* the hello retained by the broker on the registry topic
  registry,     \* registry[c]: the hellos the broker has queued for remotes c
  remotes,      \* remotes[c]: the MqttRemotes of clone c
  present,      \* the ids present on the control topic, in presence order
  recentlySentTo, \* recentlySentTo[c]: the ids remotes c has sent to of late
  broadcast,    \* the messages published on the operations topic, in order
  operations,   \* operations[c]: those the broker has queued for remotes c
  nextUpdates,  \* nextUpdates[c]: the updates remotes c has given its clone
  sends,        \* the sends of the remotes and the changes of presence, in order
  ops,          \* the revup request being answered by the responder, if any
  replyResolvers, \* replyResolvers[c]: the message ids remotes c awaits a reply to
  response,     \* response[m]: message m, by uuid(), and the future of its response
  sentTopic,    \* the requests published and not yet given to their remotes
  consuming,    \* consuming[c]: the stream addresses remotes c has subscribed to
  producing,    \* producing[a]: the observable streamed on address a, with the
                \*   notifications waiting for the notify lock of the address
  streams,      \* streams[a]: the notifications published on address a, in order
  consumed,     \* consumed[a]: what the consumer of address a has been given
  timer,        \* the message ids whose send timeout is running
  replyTopic,   \* the replies published and not yet given to their remotes
  nForeign,     \* how many replies have come from outside the model
  localClone,   \* localClone[c]: remotes c has its local clone
  closing,      \* closing[c]: remotes c has been closed, with the requests in
                \*   flight then, and has ended its connection
  datasetLock,  \* datasetLock[l]: the dataset holding the lock of location l
  journals,     \* journals[l]: how many journals were created at location l
  datasets,     \* datasets[i]: SuSetDataset i, its location and how far it is
  codec,        \* the last call of the MeldEncoding on its own, if any
  api,          \* the write procedures given to the ApiStateMachine of the
                \*   responder, and how far each has come
  relay,        \* relay[c]: the updates of clone c given to its remotes, those
                \*   waiting to be published and what became of the others
  taking,       \* the takeSnapshot of the responder: its hold of the
                \*   transaction lock, its reply and its two streams
  asking,       \* the revupFrom of the requester: the peers it has asked,
                \*   those that refused and how it ended
  onlineState        \* the online status of the requester's remotes, and the
                \*   reads of the presence that its listener has started

vars == <<store, localTime, txn, emitted, delivered, published, minted, result,
          snapshot, revup, qsStore, qsCalls, nTxn, nRedeliver, closed, ops, cx,
          retained, registry, remotes, present, recentlySentTo,
          broadcast, operations, nextUpdates, sends,
          replyResolvers, response, sentTopic, consuming, timer, replyTopic,
          nForeign, producing, streams, consumed, localClone, closing,
          datasetLock, journals, datasets, codec, api, relay, taking, asking, onlineState>>
\* the snapshot being taken, the revup being asked for and the online status
snVars == <<taking, asking, onlineState>>
\* the local clone of the remotes and their closing
clVars == <<localClone, closing>>
\* the locks of the storage locations and the datasets stored there
lkVars == <<datasetLock, journals, datasets>>
\* the streams of the responses
stVars == <<producing, streams, consumed>>
\* the requests of the remotes and their replies
rqVars == <<replyResolvers, response, sentTopic, consuming, timer, replyTopic,
            nForeign, stVars>>
\* the state of the remotes and of the requests they answer
rmVars == <<closed, ops, cx, retained, registry, remotes, present, recentlySentTo,
           broadcast, operations, nextUpdates, sends>>
\* the state of the MqttRemotes and of the broker
mqVars == <<retained, registry, remotes, present, recentlySentTo,
            broadcast, operations, nextUpdates, sends>>
\* the operations topic and the requests
brVars == <<broadcast, operations, nextUpdates, sends>>
qsVars == <<qsStore, qsCalls>>
cloneVars == <<store, localTime, txn, emitted, delivered, published, minted,
               result, snapshot, revup, nTxn, nRedeliver>>

Idle == [kind |-> "idle", tid |-> <<>>, patch |-> EmptyPatch, value |-> <<>>]
NoResult == [op |-> "none", tid |-> <<>>, value |-> "none"]
NoRevup ==
  [state |-> "none", time |-> ZeroTime, cursor |-> 0, stream |-> <<>>,
   applied |-> 0, of |-> {}]
NoOps ==
  [state |-> "none", seen |-> TRUE, time |-> ZeroTime, outcome |-> "none",
   reply |-> <<>>]
NoCx == [op |-> "none", st |-> {}, update |-> <<>>, ok |-> TRUE, result |-> <<>>]
NoRemotes ==
  [starts |-> 0, phase |-> "none", isGenesis |-> "pending", firstHello |-> <<>>,
   clock |-> "none"]
NoSnapshot ==
  [taken |-> FALSE, from |-> "", reset |-> FALSE, lastTime |-> ZeroTime,
   lastHash |-> <<>>, quads |-> {}, tids |-> {}, of |-> {}]

\* The data patches a write request may produce (JrqlGraph.write): fixed
\* quads to delete and to insert, whether or not they are stored.  A write
\* inserts one triple, deletes one triple, replaces one name by another or
\* inserts both names.
UserPatch ==
  {[oldQuads |-> {toDomainQuad(t) : t \in old}, newQuads |-> {toDomainQuad(t) : t \in new}]
   : <<old, new>> \in {x \in (SUBSET Triple) \X (SUBSET Triple) :
        /\ Cardinality(x[1]) <= 1 /\ x[1] \cup x[2] # {}
        /\ Cardinality(x[2]) > 1 => (x[1] = {} /\ x[2] = NameTriples(Triple))
        /\ (x[1] # {} /\ x[2] # {}) => (x[1] \cup x[2] \subseteq NameTriples(Triple))}}

\* no write procedure yet: the writes each procedure makes, how many it has
\* made and the transactions it has written, in the order of the calls of
\* api.write; how many procedures were started, which are running and which
\* have ended; and the last read of a procedure on the state of its write
NoRead == [by |-> 0, tids |-> {}, own |-> {}, ended |-> {}, submitted |-> 0]
NoApi ==
  [todo |-> <<>>, made |-> <<>>, wrote |-> <<>>, started |-> 0, running |-> {},
   ended |-> {}, read |-> NoRead]
\* no update of the clone yet
NoRelay == [emitted |-> 0, outgoing |-> <<>>, ignored |-> {}, delivered |-> {},
            failed |-> {}]
\* no call of the MeldEncoding yet
NoCodec == [op |-> "none", delta |-> <<>>, encoded |-> <<>>, decoded |-> <<>>]
\* the SuSetDatasets made and the storage locations they are made on
Instance == 1..MaxInstance
Location == 1..MaxLocation
\* the lock of a location is free
NoHolder == 0
\* a SuSetDataset not yet constructed
NoDataset == [state |-> "none", location |-> 0, refused |-> 0]

\* SuSetDataset.initialise on an empty store, then saveClock
NewStore(d) == JournalQuads(HeadEntry(ZeroTime, d, <<>>), ZeroTime)

\* no snapshot has been asked of the responder
NoTaking ==
  [state |-> "idle", lastTime |-> <<>>, lastHash |-> <<>>, held |-> {},
   reply |-> "none", quads |-> "cold", quadsRead |-> {}, tids |-> "cold",
   tidsRead |-> {}]

\* revupFrom has not been called
NoAsking == [state |-> "idle", tried |-> {}, asked |-> <<>>]

\* the remotes are made: no status yet, no change of presence heard of
NoOnline == [status |-> "null", reads |-> <<>>, changes |-> 0, closed |-> FALSE]

Init ==
  /\ store = [d \in Dataset |-> NewStore(d)]
  /\ localTime = [d \in Dataset |-> ZeroTime]
  /\ txn = [d \in Dataset |-> Idle]
  /\ emitted = [d \in Dataset |-> <<>>]
  /\ delivered = [d \in Dataset |-> 0]
  /\ published = {}
  /\ minted = [d \in Dataset |-> 0]
  /\ result = [d \in Dataset |-> NoResult]
  /\ snapshot = NoSnapshot
  /\ revup = NoRevup
  /\ qsStore = {} /\ qsCalls = <<>>
  /\ nTxn = 0 /\ nRedeliver = 0
  /\ closed = [d \in Dataset |-> FALSE]
  /\ ops = NoOps
  /\ cx = NoCx
  /\ retained = <<>>
  /\ registry = [c \in Dataset |-> <<>>]
  /\ remotes = [c \in Dataset |-> NoRemotes]
  /\ present = <<>>
  /\ recentlySentTo = [c \in Dataset |-> {}]
  /\ broadcast = <<>>
  /\ operations = [c \in Dataset |-> <<>>]
  /\ nextUpdates = [c \in Dataset |-> <<>>]
  /\ sends = <<>>
  /\ replyResolvers = [c \in Dataset |-> {}]
  /\ response = <<>>
  /\ timer = {}
  /\ replyTopic = {}
  /\ sentTopic = {}
  /\ producing = <<>>
  /\ streams = <<>>
  /\ consumed = <<>>
  /\ consuming = [c \in Dataset |-> {}]
  /\ nForeign = 0
  /\ localClone = [c \in Dataset |-> TRUE]
  /\ closing = [c \in Dataset |-> [closed |-> FALSE, inFlight |-> {}, ended |-> FALSE]]
  /\ datasetLock = [l \in Location |-> NoHolder]
  /\ journals = [l \in Location |-> 0]
  /\ datasets = [i \in Instance |-> NoDataset]
  /\ codec = NoCodec
  /\ api = NoApi
  /\ relay = [c \in Clone |-> NoRelay]
  /\ taking = NoTaking
  /\ asking = NoAsking
  /\ onlineState = NoOnline

\* Dataset.transact: the transaction lock is free
LockFree(d) == txn[d].kind = "idle"
\* The updates observable is observeOn(asapScheduler): an update pushed to
\* updateSource is handed to the subscribers in the next microtask, before any
\* further I/O of the dataset completes.
Flushed(d) == delivered[d] = Len(emitted[d])
uuid(d) == <<d, minted[d] + 1>>

(* ------------------------------ actions -------------------------------- *)
\* A local write: the engine ticks its clock and SuSetDataset.transact
\* prepares the transaction under the lock.
TransactUpTo(c, patch, max) ==
  /\ LockFree(c) /\ Flushed(c)
  /\ nTxn < max
  /\ LET tid == uuid(c)
         time == Ticked(localTime[c], c)
         r == transact(store[c], c, tid, time, patch)
     IN  /\ nTxn' = nTxn + 1
         /\ emitted' = [emitted EXCEPT ![c] = @ \o r.emits]
         /\ IF r.ok
            THEN /\ txn' = [txn EXCEPT ![c] = [kind |-> "transact", tid |-> tid,
                                               patch |-> r.patch, value |-> r.value]]
                 /\ localTime' = [localTime EXCEPT ![c] = time]
                 /\ minted' = [minted EXCEPT ![c] = @ + 1]
                 /\ result' = [result EXCEPT ![c] =
                                 [op |-> "transact", tid |-> tid, value |-> "pending"]]
            ELSE /\ result' = [result EXCEPT ![c] =
                                 [op |-> "transact", tid |-> tid, value |-> "ConstraintFailed"]]
                 /\ UNCHANGED <<txn, localTime, minted>>
  /\ UNCHANGED <<store, delivered, published, snapshot, revup, nRedeliver>>
  /\ UNCHANGED <<qsVars, clVars, lkVars, codec, relay, snVars, rmVars, rqVars>>

Transact(c, patch) == TransactUpTo(c, patch, MaxTxn) /\ UNCHANGED api

\* the deltas that happened before msg have been applied at c
CausallyReady(c, msg) ==
  \A m \in published : (m # msg /\ TimeLeq(m.time, msg.time)) => knowsTid(store[c], m.tid)
\* the engine's clock for the arrival of a message and for its constraint
ArrivalTime(c, msg) == Ticked(Merge(localTime[c], msg.time), c)
CxTime(c, msg) == Ticked(ArrivalTime(c, msg), c)

\* A delta arrives from the operations topic: the engine merges the message
\* time into its clock and ticks for the arrival and for the constraint, and
\* SuSetDataset.apply prepares the transaction under the lock.  With no
\* patch to commit the transaction is over at once.
ApplyStep(c, msg) ==
  /\ LockFree(c) /\ Flushed(c)
  /\ LET r == apply(store[c], c, msg, ArrivalTime(c, msg), CxTime(c, msg), uuid(c))
     IN  /\ emitted' = [emitted EXCEPT ![c] = @ \o r.emits]
         /\ minted' = [minted EXCEPT ![c] = IF r.value # <<>> THEN @ + 1 ELSE @]
         /\ IF r.hasPatch
            THEN /\ txn' = [txn EXCEPT ![c] = [kind |-> "apply", tid |-> msg.tid,
                                               patch |-> r.patch, value |-> r.value]]
                 /\ result' = [result EXCEPT ![c] =
                                 [op |-> "apply", tid |-> msg.tid, value |-> "pending"]]
            ELSE /\ txn' = txn
                 /\ result' = [result EXCEPT ![c] =
                                 [op |-> "apply", tid |-> msg.tid, value |-> "null"]]
  /\ localTime' = [localTime EXCEPT ![c] = CxTime(c, msg)]
  /\ UNCHANGED <<store, delivered, published, snapshot, nTxn>>
  /\ UNCHANGED <<qsVars, clVars, lkVars, codec, api, relay, snVars, rmVars, rqVars>>

\* a delta of another clone arrives for the first time
Apply(c, msg) ==
  /\ msg.from # c
  /\ msg.tid \notin AllTidsOf(store[c])
  /\ CausallyReady(c, msg)
  /\ ApplyStep(c, msg)
  /\ UNCHANGED <<revup, nRedeliver>>

\* the transport delivers again a delta that is already in qs:all, applied
\* before or this clone's own
ApplyDuplicate(c, msg) ==
  /\ msg.tid \in AllTidsOf(store[c])
  /\ nRedeliver < MaxRedeliver
  /\ nRedeliver' = nRedeliver + 1
  /\ CausallyReady(c, msg)
  /\ ApplyStep(c, msg)
  /\ UNCHANGED revup

\* Dataset.transact: the prepared patch is written to the store in one batch,
\* the lock is released and the value is returned; the engine publishes it
Commit(d) ==
  /\ ~LockFree(d) /\ Flushed(d)
  /\ store' = [store EXCEPT ![d] = StorePatch(@, txn[d].patch)]
  /\ published' = published \cup {txn[d].value[i] : i \in 1..Len(txn[d].value)}
  /\ result' = [result EXCEPT ![d] =
                  [op |-> txn[d].kind, tid |-> txn[d].tid,
                   value |-> IF txn[d].value = <<>> THEN "null" ELSE "delta"]]
  /\ txn' = [txn EXCEPT ![d] = Idle]
  /\ UNCHANGED <<localTime, emitted, delivered, minted, snapshot, revup, nTxn,
                 nRedeliver>>
  /\ UNCHANGED <<qsVars, clVars, lkVars, codec, api, relay, snVars, rmVars, rqVars>>

\* the asap scheduler hands the next update to the subscribers of updates
Deliver(d) ==
  /\ ~Flushed(d)
  /\ delivered' = [delivered EXCEPT ![d] = @ + 1]
  /\ UNCHANGED <<store, localTime, txn, emitted, published, minted, result,
                 snapshot, revup, nTxn, nRedeliver>>
  /\ UNCHANGED <<qsVars, clVars, lkVars, codec, api, relay, snVars, rmVars, rqVars>>

Next ==
  \/ \E c \in Clone, patch \in UserPatch : Transact(c, patch)
  \/ \E c \in Clone, msg \in published : Apply(c, msg)
  \/ \E d \in Dataset : Commit(d)
  \/ \E d \in Dataset : Deliver(d)

Spec == Init /\ [][Next]_vars

\* the writes that insert triples and delete none: one triple, or both names
InsertsOnly == {p \in UserPatch : p.oldQuads = {}}
\* clones that insert, up to MaxWrite writes, and apply each other's deltas
NextTicks ==
  \/ \E c \in Clone, patch \in InsertsOnly :
       TransactUpTo(c, patch, MaxWrite) /\ UNCHANGED api
  \/ \E c \in Clone, msg \in published : Apply(c, msg)
  \/ \E d \in Clone : Commit(d)
  \/ \E d \in Clone : Deliver(d)

SpecTicks == Init /\ [][NextTicks]_vars

\* the writes that insert or delete the one triple of the height
HeightPatch == {p \in UserPatch : p.oldQuads \cup p.newQuads =
                  {toDomainQuad(t) : t \in Triple \ NameTriples(Triple)}}
\* clones that insert and delete one triple, up to MaxWrite writes, and
\* apply each other's deltas
NextRemove ==
  \/ \E c \in Clone, patch \in HeightPatch :
       TransactUpTo(c, patch, MaxWrite) /\ UNCHANGED api
  \/ \E c \in Clone, msg \in published : Apply(c, msg)
  \/ \E d \in Clone : Commit(d)
  \/ \E d \in Clone : Deliver(d)

SpecRemove == Init /\ [][NextRemove]_vars

(* ------------------- takeSnapshot and its two streams -------------------- *)
\* the quads stream of the snapshot, read from the store st: graph.match(),
\* each batch reified with the tids found for its triples
quadsStream(st) ==
  {asTripleTids(tt) : tt \in findTriplesTids(st, GraphQuads(st, "data"))}
\* the tids stream of the snapshot, read from the store st:
\* tidsGraph.graph.match(qs:all, #tid)
tidsStream(st) == AllTidsOf(st)
\* await dataEmitted: the future that the completion of the quads stream
\* resolves (tapComplete)
dataEmitted(quads) == quads = "complete"

\* takeSnapshot, in the transaction 'snapshot': under the lock the prepare
\* reads the journal tail and resolves the snapshot, whose streams are cold,
\* then awaits dataEmitted; replySnapshot sends the response and awaits
\* its ack
TakeSnapshotPrepare ==
  /\ taking.state = "idle"
  /\ LockFree(Responder) /\ Flushed(Responder)
  /\ LET tail == JournalTail(store[Responder])
     IN  taking' = [taking EXCEPT
           !.state = IF dataEmitted(taking.quads) THEN "released" ELSE "locked",
           !.lastTime = EntryTime(tail), !.lastHash = tail.hash,
           !.held = store[Responder], !.reply = "awaited"]
  /\ UNCHANGED <<cloneVars, qsVars, clVars, lkVars, codec, api, relay, asking, onlineState, rmVars,
                 rqVars>>

\* replySnapshot: the ack of the response arrives
SnapshotAcked ==
  /\ taking.reply = "awaited"
  /\ taking' = [taking EXCEPT !.reply = "acked"]
  /\ UNCHANGED <<cloneVars, qsVars, clVars, lkVars, codec, api, relay, asking, onlineState, rmVars,
                 rqVars>>

\* replySnapshot: the send times out with no ack; the await of reply throws,
\* onSent logs the error and produce is not called
SnapshotAckTimeout ==
  /\ taking.reply = "awaited"
  /\ taking' = [taking EXCEPT !.reply = "timeout"]
  /\ UNCHANGED <<cloneVars, qsVars, clVars, lkVars, codec, api, relay, asking, onlineState, rmVars,
                 rqVars>>

\* produce subscribes to the quads of the snapshot: the store is read
SubscribeQuads ==
  /\ taking.reply = "acked" /\ taking.quads = "cold"
  /\ taking' = [taking EXCEPT !.quads = "emitting",
                              !.quadsRead = quadsStream(store[Responder])]
  /\ UNCHANGED <<cloneVars, qsVars, clVars, lkVars, codec, api, relay, asking, onlineState, rmVars,
                 rqVars>>

\* the quads stream completes: dataEmitted resolves, the prepare returns no
\* patch and the transaction lock is released
QuadsComplete ==
  /\ taking.quads = "emitting"
  /\ taking' = [taking EXCEPT
       !.quads = "complete",
       !.state = IF dataEmitted("complete") THEN "released" ELSE @]
  /\ UNCHANGED <<cloneVars, qsVars, clVars, lkVars, codec, api, relay, asking, onlineState, rmVars,
                 rqVars>>

\* produce subscribes to the tids of the snapshot: the store is read
SubscribeTids ==
  /\ taking.reply = "acked" /\ taking.tids = "cold"
  /\ taking' = [taking EXCEPT !.tids = "complete",
                              !.tidsRead = tidsStream(store[Responder])]
  /\ UNCHANGED <<cloneVars, qsVars, clVars, lkVars, codec, api, relay, asking, onlineState, rmVars,
                 rqVars>>

\* the transaction lock of the responder is not held by takeSnapshot
NotTaking(c) == c = Responder => taking.state # "locked"

\* the clones write and apply while the responder takes one snapshot
NextTake ==
  \/ \E c \in Clone, patch \in InsertsOnly :
       NotTaking(c) /\ TransactUpTo(c, patch, MaxTxn) /\ UNCHANGED api
  \/ \E c \in Clone, msg \in published : NotTaking(c) /\ Apply(c, msg)
  \/ \E d \in Clone : Commit(d)
  \/ \E d \in Clone : Deliver(d)
  \/ TakeSnapshotPrepare
  \/ SnapshotAcked
  \/ SnapshotAckTimeout
  \/ SubscribeQuads
  \/ QuadsComplete
  \/ SubscribeTids

SpecTake == Init /\ [][NextTake]_vars

\* the timer of the send settles the reply, a stream subscribed to runs to
\* its end, produce subscribes once it is called, and a prepared transaction
\* is committed
SpecTakeLive ==
  /\ SpecTake
  /\ WF_vars(SnapshotAcked \/ SnapshotAckTimeout)
  /\ WF_vars(SubscribeQuads)
  /\ WF_vars(QuadsComplete)
  /\ WF_vars(SubscribeTids)
  /\ WF_vars(\E d \in Clone : Commit(d))
  /\ WF_vars(\E d \in Clone : Deliver(d))

\* the writes that insert one triple
InsertPatch == {p \in UserPatch : p.oldQuads = {} /\ Cardinality(p.newQuads) = 1}
\* clones that insert, and whose constraint repairs delete, with redelivery
\* by the transport
NextDedup ==
  \/ \E c \in Clone, patch \in InsertPatch : Transact(c, patch)
  \/ \E c \in Clone, msg \in published : Apply(c, msg)
  \/ \E d \in Dataset : Commit(d)
  \/ \E d \in Dataset : Deliver(d)
  \/ \E c \in Clone, msg \in published : ApplyDuplicate(c, msg)

SpecDedup == Init /\ [][NextDedup]_vars

(* ------------------------------ snapshot ------------------------------- *)
\* the batches bufferCount can make of what is left of a stream
Batches(left) ==
  {b \in SUBSET left :
     /\ b # {}
     /\ Cardinality(b) = IF Cardinality(left) < SnapshotBatch
                         THEN Cardinality(left) ELSE SnapshotBatch}
\* applySnapshot, for one batch of reified quads: for each triple the tids
\* into the tids graph and the triple itself
snapshotBatchPatch(batch) ==
  LET entries == unreify(batch)
      all == UNION {PatchConcat(newTripleTids(e.triple, e.tids),
                                [oldQuads |-> {}, newQuads |-> {toDomainQuad(e.triple)}]).newQuads
                    : e \in entries}
  IN  [oldQuads |-> {}, newQuads |-> all]

\* SuSetDataset.takeSnapshot at clone a, for the new clone: under the
\* transaction lock, held until all the data is emitted, the journal tail's
\* time and hash, the triples with their tids and the tids of qs:all.  What
\* the other clones are doing does not matter to it: it is taken when they
\* are between transactions.
TakeSnapshot(a) ==
  /\ ~snapshot.taken
  /\ \A c \in Clone : LockFree(c) /\ Flushed(c)
  /\ LET tail == JournalTail(store[a])
     IN  snapshot' = [taken |-> TRUE, from |-> a, reset |-> FALSE,
                      lastTime |-> EntryTime(tail), lastHash |-> tail.hash,
                      quads |-> {asTripleTids(tt) :
                                   tt \in findTriplesTids(store[a], GraphQuads(store[a], "data"))},
                      tids |-> AllTidsOf(store[a]),
                      of |-> store[a]]
  /\ UNCHANGED <<store, localTime, txn, emitted, delivered, published, minted,
                 result, revup, nTxn, nRedeliver>>
  /\ UNCHANGED <<qsVars, clVars, lkVars, codec, api, relay, snVars, rmVars, rqVars>>

\* applySnapshot: the first transaction resets the journal; the engine has
\* joined the snapshot's time into the new clone's clock
ApplySnapshotReset ==
  /\ snapshot.taken /\ ~snapshot.reset
  /\ LockFree(Target)
  /\ LET time == Ticked(Merge(localTime[Target], snapshot.lastTime), Target)
     IN  /\ localTime' = [localTime EXCEPT ![Target] = time]
         /\ txn' = [txn EXCEPT ![Target] =
                      [kind |-> "suset-reset", tid |-> <<>>,
                       patch |-> journalReset(store[Target], Target, snapshot.lastHash,
                                              snapshot.lastTime, time),
                       value |-> <<>>]]
  /\ snapshot' = [snapshot EXCEPT !.reset = TRUE]
  /\ UNCHANGED <<store, emitted, delivered, published, minted, result, revup, nTxn,
                 nRedeliver>>
  /\ UNCHANGED <<qsVars, clVars, lkVars, codec, api, relay, snVars, rmVars, rqVars>>

\* applySnapshot: a batch of tids arrives and goes into qs:all
ApplySnapshotTids(batch) ==
  /\ snapshot.taken /\ snapshot.reset
  /\ LockFree(Target)
  /\ batch \in Batches(snapshot.tids)
  /\ txn' = [txn EXCEPT ![Target] =
               [kind |-> "snapshot-tids-batch", tid |-> <<>>,
                patch |-> newTid(batch), value |-> <<>>]]
  /\ snapshot' = [snapshot EXCEPT !.tids = @ \ batch]
  /\ UNCHANGED <<store, localTime, emitted, delivered, published, minted, result,
                 revup, nTxn, nRedeliver>>
  /\ UNCHANGED <<qsVars, clVars, lkVars, codec, api, relay, snVars, rmVars, rqVars>>

\* applySnapshot: a batch of reified quads with tids arrives and is unreified
ApplySnapshotQuads(batch) ==
  /\ snapshot.taken /\ snapshot.reset
  /\ LockFree(Target)
  /\ batch \in Batches(snapshot.quads)
  /\ txn' = [txn EXCEPT ![Target] =
               [kind |-> "snapshot-batch", tid |-> <<>>,
                patch |-> snapshotBatchPatch(reifyTriplesTids(batch)), value |-> <<>>]]
  /\ snapshot' = [snapshot EXCEPT !.quads = @ \ batch]
  /\ UNCHANGED <<store, localTime, emitted, delivered, published, minted, result,
                 revup, nTxn, nRedeliver>>
  /\ UNCHANGED <<qsVars, clVars, lkVars, codec, api, relay, snVars, rmVars, rqVars>>

\* the clones, until a snapshot is taken; then the new clone is brought up
\* from it while the world is held up
NextSnapshot ==
  \/ ~snapshot.taken /\ Next
  \/ TakeSnapshot(Responder)
  \/ ApplySnapshotReset
  \/ \E batch \in SUBSET snapshot.tids : ApplySnapshotTids(batch)
  \/ \E batch \in SUBSET snapshot.quads : ApplySnapshotQuads(batch)
  \/ snapshot.taken /\ Commit(Target)

SpecSnapshot == Init /\ [][NextSnapshot]_vars

\* applySnapshot has resolved: every batch is applied and committed
SnapshotApplied ==
  /\ snapshot.taken /\ snapshot.reset
  /\ snapshot.tids = {} /\ snapshot.quads = {}
  /\ LockFree(Target)

\* every batch of the snapshot has been handed to applySnapshot
SnapshotSent ==
  /\ snapshot.taken /\ snapshot.reset
  /\ snapshot.tids = {} /\ snapshot.quads = {}

\* the new clone, brought up from the snapshot, and the clone that gave it
\* then both receive the deltas they have not seen
NextRepair ==
  \/ ~snapshot.taken /\ Next
  \/ TakeSnapshot(Responder)
  \/ ApplySnapshotReset
  \/ \E batch \in SUBSET snapshot.tids : ApplySnapshotTids(batch)
  \/ \E batch \in SUBSET snapshot.quads : ApplySnapshotQuads(batch)
  \/ snapshot.taken /\ Commit(Target)
  \/ SnapshotApplied /\ \E c \in {Responder, Target}, msg \in published : Apply(c, msg)
  \/ SnapshotSent /\ (Commit(Responder) \/ Deliver(Responder) \/ Deliver(Target))

SpecRepair == Init /\ [][NextRepair]_vars

(* ------------------------------- revup --------------------------------- *)
\* operationsSince(time), its prepare: how many ticks of mine the requester
\* has seen, and the journal entry found at those ticks, if any
operationsSince(st, id, time) ==
  LET ticks == Ticks(time, id)
  IN  [found |-> HasEntry(st, ticks), entry |-> ticks]
\* a filter that lets every entry through
sinceFilter_All(time, entry) == TRUE
\* the filter of operationsSince: don't emit an entry if it's all less than
\* the requested time
sinceFilter(time, entry) == AnyLt(time, EntryTime(entry))
\* emitJournalFrom(entry, subs, filter), for one entry: the DeltaMessage
\* emitted if the filter lets the entry through, and whether there is a next
emitJournalFrom(st, id, tick, time) ==
  LET entry == EntryAt(st, tick)
  IN  [emits |-> IF sinceFilter(time, entry)
                 THEN <<DeltaMessage(id, EntryTime(entry),
                                     [tid |-> entry.tid, encoded |-> entry.encoded])>>
                 ELSE <<>>,
       hasNext |-> HasNext(st, tick)]

\* The requester, between transactions, asks the responder for the
\* operations since its time; operationsSince runs under the responder's
\* transaction lock and returns the observable, or undefined.
RevupRequest ==
  /\ revup.state = "none"
  /\ \A c \in Clone : LockFree(c) /\ Flushed(c)
  /\ LET r == operationsSince(store[Responder], Responder, localTime[Requester])
     IN  revup' = [state |-> IF r.found THEN "walking" ELSE "refused",
                   time |-> localTime[Requester], cursor |-> r.entry,
                   stream |-> <<>>, applied |-> 0, of |-> {}]
  /\ UNCHANGED <<store, localTime, txn, emitted, delivered, published, minted,
                 result, snapshot, nTxn, nRedeliver>>
  /\ UNCHANGED <<qsVars, clVars, lkVars, codec, api, relay, snVars, rmVars, rqVars>>

\* emitJournalFrom: with the dataset closed, the observable fails with
\* 'Clone has closed'; else the entry at the cursor is emitted if the filter
\* lets it through; entry.next() then reads the journal as it is now, and
\* the observable completes when there is no next entry
RevupEmit ==
  /\ revup.state = "walking"
  /\ LET r == emitJournalFrom(store[Responder], Responder, revup.cursor, revup.time)
     IN  revup' = IF closed[Responder]
                  THEN [revup EXCEPT !.state = "Clone has closed"]
                  ELSE IF r.hasNext
                  THEN [revup EXCEPT !.stream = @ \o r.emits,
                                     !.cursor = NextTick(store[Responder], revup.cursor)]
                  ELSE [revup EXCEPT !.stream = @ \o r.emits,
                                     !.state = "complete",
                                     !.of = store[Responder]]
  /\ UNCHANGED <<store, localTime, txn, emitted, delivered, published, minted,
                 result, snapshot, nTxn, nRedeliver>>
  /\ UNCHANGED <<qsVars, clVars, lkVars, codec, api, relay, snVars, rmVars, rqVars>>

\* the requester applies the next operation of the revup
RevupApply ==
  /\ revup.state \in {"walking", "complete"}
  /\ revup.applied < Len(revup.stream)
  /\ ApplyStep(Requester, revup.stream[revup.applied + 1])
  /\ revup' = [revup EXCEPT !.applied = @ + 1]
  /\ UNCHANGED nRedeliver

\* the clones, until the requester asks for a revup; then the requester only
\* applies the revup, and the responder goes on until the revup completes
NextRevup ==
  \/ revup.state = "none" /\ Next
  \/ RevupRequest
  \/ RevupEmit
  \/ RevupApply
  \/ revup.state = "walking" /\ \E patch \in UserPatch : Transact(Responder, patch)
  \/ revup.state = "walking" /\ \E msg \in published : Apply(Responder, msg)
  \/ revup.state = "walking" /\ (Commit(Responder) \/ Deliver(Responder))
  \/ revup.state # "none" /\ (Commit(Requester) \/ Deliver(Requester))

SpecRevup == Init /\ [][NextRevup]_vars

(* ------------------- answering a revup request ------------------------- *)
\* time.getTicks(journal.time) of a requester's clock: the ticks of this
\* clone's identity in it, or nothing when the identity leaf is absent
getTicks(seen, time, id) == IF seen THEN <<Ticks(time, id)>> ELSE <<>>
\* (nil ticks taken for no ticks: the journal is walked from its head)
operationsSinceOutcome_NilFound(st, id, isClosed, seen, time) ==
  IF isClosed THEN "error"
  ELSE IF operationsSince(st, id, time).found THEN "observable" ELSE "undefined"
\* checkNotClosed.async, then operationsSince: how the promise settles
operationsSinceOutcome(st, id, isClosed, seen, time) ==
  LET ticks == getTicks(seen, time, id)
      found == IF ticks # <<>> THEN operationsSince(st, id, time).found ELSE FALSE
  IN  IF isClosed THEN "error"
      ELSE IF found THEN "observable" ELSE "undefined"
\* replyRevup: Response.Revup(canRevup, updatesAddress)
replyRevup(outcome, id, address) ==
  IF outcome = "observable" THEN [canRevup |-> TRUE, updatesAddress |-> address]
  ELSE [canRevup |-> FALSE, updatesAddress |-> id]

\* SuSetDataset.close
Close(d) ==
  /\ ~closed[d] /\ LockFree(d) /\ Flushed(d)
  /\ ops.state = "none"
  /\ closed' = [closed EXCEPT ![d] = TRUE]
  /\ UNCHANGED <<cloneVars, qsVars, clVars, lkVars, codec, api, relay, snVars, rqVars, ops, cx, mqVars>>

\* The responder answers Request.Revup(time): clone.revupFrom(req.time) runs
\* operationsSince, under the transaction lock.  The requester's clock either
\* has the responder's identity leaf, or (having no tick of it) lacks it.
OperationsSince(seen) ==
  /\ ops.state = "none"
  /\ \A c \in Clone : LockFree(c) /\ Flushed(c)
  /\ seen \/ Ticks(localTime[Requester], Responder) = 0
  /\ ops' = [state |-> "returned", seen |-> seen, time |-> localTime[Requester],
             outcome |-> operationsSinceOutcome(store[Responder], Responder,
                            closed[Responder], seen, localTime[Requester]),
             reply |-> <<>>]
  /\ UNCHANGED <<cloneVars, qsVars, clVars, lkVars, codec, api, relay, snVars, rqVars, closed, cx, mqVars>>

\* replyRevup(sentParams, willRevup): awaits the promise and replies; a
\* rejected promise is caught and logged by the caller, with no reply
ReplyRevup ==
  /\ ops.state = "returned" /\ ops.outcome # "error"
  /\ ops' = [ops EXCEPT !.state = "replied",
                        !.reply = <<replyRevup(ops.outcome, Responder, "updates")>>]
  /\ UNCHANGED <<cloneVars, qsVars, clVars, lkVars, codec, api, relay, snVars, rqVars, closed, cx, mqVars>>

\* the methods of SuSetDataset decorated with checkNotClosed
Methods ==
  {"initialise", "loadClock", "saveClock", "lastHash", "operationsSince",
   "transact", "apply", "applySnapshot", "takeSnapshot", "close"}
\* (no check)
checkNotClosed_Never(isClosed) == "ok"
\* checkNotClosed: the method is not entered when the dataset is closed
checkNotClosed(isClosed) == IF isClosed THEN "Clone has closed" ELSE "ok"

\* a method of a closed dataset is called: the promise is rejected
CallClosed(d, method) ==
  /\ checkNotClosed(closed[d]) # "ok"
  /\ result' = [result EXCEPT
                  ![d] = [op |-> method, tid |-> <<>>,
                          value |-> checkNotClosed(closed[d])]]
  /\ UNCHANGED <<store, localTime, txn, emitted, delivered, published, minted,
                 snapshot, revup, nTxn, nRedeliver>>
  /\ UNCHANGED <<qsVars, clVars, lkVars, codec, api, relay, snVars, rmVars, rqVars>>

\* the methods of a dataset that is not closed
Open(d) == checkNotClosed(closed[d]) = "ok"

\* the responder writing, the revup of the requester, and the responder
\* closing
NextClosed ==
  \/ \E patch \in UserPatch : Open(Responder) /\ Transact(Responder, patch)
  \/ Commit(Responder)
  \/ Deliver(Responder)
  \/ Open(Responder) /\ RevupRequest
  \/ RevupEmit
  \/ Open(Responder) /\ Close(Responder)
  \/ \E method \in Methods : CallClosed(Responder, method)

SpecClosed == Init /\ [][NextClosed]_vars

NextOps ==
  \/ ops.state = "none" /\ ~closed[Responder] /\ Next
  \/ Close(Responder)
  \/ \E seen \in BOOLEAN : OperationsSince(seen)
  \/ ReplyRevup

SpecOps == Init /\ [][NextOps]_vars

(* ------------------ the constraint, called on its own ------------------ *)
Wilma == "wilma"
\* the triples of the updates and stores the constraint is called with
CxTriple ==
  Triple \cup {[s |-> Wilma, p |-> NameProp, o |-> Flintstone],
               [s |-> Wilma, p |-> NameProp, o |-> FredValue]}
\* the stores it reads: every subject has at most one value of the property
CxStore ==
  {{toDomainQuad(t) : t \in data} :
     data \in {ts \in SUBSET CxTriple :
                \A s \in {Fred, Wilma} :
                  Cardinality({t \in NameTriples(ts) : t.s = s}) <= 1}}
\* the updates it is given: the deleted triples were stored
CxUpdate(st) ==
  {[ticks |-> 0, delete |-> del, insert |-> ins] :
     del \in SUBSET DataOf(st), ins \in SUBSET CxTriple}
\* SingleValued.apply, as the caller sees it: null (none), or an Update
\* with a @delete and an empty @insert
constraintApplyResult(update, st) ==
  IF constraintApply(update, st) = {} THEN <<>>
  ELSE <<[delete |-> constraintApply(update, st), insert |-> {}]>>

\* constraint.check(update, read)
CxCheck(st, update) ==
  /\ cx.op = "none"
  /\ cx' = [op |-> "check", st |-> st, update |-> update,
            ok |-> check(update, st), result |-> <<>>]
  /\ UNCHANGED <<cloneVars, qsVars, clVars, lkVars, codec, api, relay, snVars, rqVars, closed, ops, mqVars>>
\* constraint.apply(update, read)
CxApply(st, update) ==
  /\ cx.op = "none"
  /\ cx' = [op |-> "apply", st |-> st, update |-> update, ok |-> TRUE,
            result |-> constraintApplyResult(update, st)]
  /\ UNCHANGED <<cloneVars, qsVars, clVars, lkVars, codec, api, relay, snVars, rqVars, closed, ops, mqVars>>

NextCx ==
  \/ \E st \in CxStore : \E update \in CxUpdate(st) : CxCheck(st, update)
  \/ \E st \in CxStore : \E update \in CxUpdate(st) : CxApply(st, update)

SpecCx == Init /\ [][NextCx]_vars

(* ----------------------------- MqttRemotes ----------------------------- *)
\* the ids of a sequence
Range(seq) == {seq[i] : i \in 1..Len(seq)}
\* the sequence without the given id
Without(seq, id) == SelectSeq(seq, LAMBDA x : x # id)

\* (a Future that a second resolve overwrites)
onHello_ReResolve(isGenesis, id, hello) == IF id = hello THEN "true" ELSE "false"
\* onHello: isGenesis.resolve(this.id === hello.id); a Future ignores a
\* re-resolve
onHello(isGenesis, id, hello) ==
  IF isGenesis # "pending" THEN isGenesis
  ELSE IF id = hello THEN "true" ELSE "false"

\* nextSendAddress: the tried set is cleared when every present id is in it,
\* this id is added, and the first present id not in it is chosen and added
nextSendAddress(id, presentIds, recent) ==
  LET cleared == IF \A i \in 1..Len(presentIds) : presentIds[i] \in recent
                 THEN {} ELSE recent
      tried == cleared \cup {id}
      untried == SelectSeq(presentIds, LAMBDA x : x \notin tried)
  IN  IF untried # <<>>
      THEN [toId |-> <<untried[1]>>, recentlySentTo |-> tried \cup {untried[1]}]
      ELSE [toId |-> <<>>, recentlySentTo |-> tried]

\* new MqttRemotes(domain, id, opts) for a clone with no clock: the first
\* start of the clone, or a new start after newClock failed
Start(c) ==
  /\ remotes[c].phase \in {"none", "failed"}
  /\ remotes[c].starts < MaxStart
  /\ remotes' = [remotes EXCEPT ![c] =
                   [NoRemotes EXCEPT !.starts = remotes[c].starts + 1,
                                     !.phase = "connecting"]]
  /\ registry' = [registry EXCEPT ![c] = <<>>]
  /\ recentlySentTo' = [recentlySentTo EXCEPT ![c] = {}]
  /\ present' = Without(present, c)
  /\ UNCHANGED <<brVars, cloneVars, qsVars, clVars, lkVars, codec, api, relay, snVars, rqVars, closed, ops, cx, retained>>

\* on 'connect': mqtt.subscribe(subscriptions); the broker sends a new
\* subscriber the message retained on the registry topic
Subscribe(c) ==
  /\ remotes[c].phase = "connecting"
  /\ remotes' = [remotes EXCEPT ![c].phase = "subscribed"]
  /\ registry' = [registry EXCEPT ![c] = @ \o retained]
  /\ UNCHANGED <<brVars, cloneVars, qsVars, clVars, lkVars, codec, api, relay, snVars, rqVars, closed, ops, cx, retained, present,
                 recentlySentTo>>

\* on 'connect': mqtt.publish(registryTopic, { id }, { qos: 1, retain: true });
\* the broker retains the hello and sends it to every subscriber
PublishHello(c) ==
  /\ remotes[c].phase = "subscribed"
  /\ remotes' = [remotes EXCEPT ![c].phase = "connected"]
  /\ retained' = <<c>>
  /\ registry' = [d \in Dataset |->
                    IF remotes[d].phase \in {"subscribed", "connected"}
                    THEN Append(registry[d], c) ELSE registry[d]]
  /\ UNCHANGED <<brVars, cloneVars, qsVars, clVars, lkVars, codec, api, relay, snVars, rqVars, closed, ops, cx, present, recentlySentTo>>

\* onMessage on the registry topic: onHello(payload)
OnHello(c) ==
  /\ remotes[c].phase \in {"subscribed", "connected"}
  /\ registry[c] # <<>>
  /\ remotes' = [remotes EXCEPT
                   ![c].isGenesis = onHello(@, c, Head(registry[c])),
                   ![c].firstHello = IF @ = <<>> THEN <<Head(registry[c])>> ELSE @]
  /\ registry' = [registry EXCEPT ![c] = Tail(@)]
  /\ UNCHANGED <<brVars, cloneVars, qsVars, clVars, lkVars, codec, api, relay, snVars, rqVars, closed, ops, cx, retained, present,
                 recentlySentTo>>

\* newClock: TreeClock.GENESIS if isGenesis, else send(Request.NewClock) to a
\* present peer, which replies with a fork of its clock; with no-one present
\* send throws NONE_VISIBLE and the clone cannot start
NewClock(c) ==
  /\ remotes[c].phase = "connected" /\ remotes[c].clock = "none"
  /\ remotes[c].isGenesis # "pending"
  /\ LET next == nextSendAddress(c, present, recentlySentTo[c])
     IN  IF remotes[c].isGenesis = "true"
         THEN /\ remotes' = [remotes EXCEPT ![c].clock = "GENESIS"]
              /\ UNCHANGED recentlySentTo
         ELSE /\ recentlySentTo' = [recentlySentTo EXCEPT ![c] = next.recentlySentTo]
              /\ remotes' = [remotes EXCEPT
                               ![c].clock = IF next.toId # <<>> THEN "forked" ELSE @,
                               ![c].phase = IF next.toId # <<>> THEN @ ELSE "failed"]
  /\ UNCHANGED <<brVars, cloneVars, qsVars, clVars, lkVars, codec, api, relay, snVars, rqVars, closed, ops, cx, retained, registry, present>>

\* clonePresent(true): the clone, online, joins the presence of the domain
Join(c) ==
  /\ remotes[c].phase = "connected" /\ remotes[c].clock # "none"
  /\ c \notin Range(present)
  /\ present' = Append(present, c)
  /\ UNCHANGED <<brVars, cloneVars, qsVars, clVars, lkVars, codec, api, relay, snVars, rqVars, closed, ops, cx, retained, registry, remotes,
                 recentlySentTo>>
\* clonePresent(false), or the broker's last will: the clone leaves
Leave(c) ==
  /\ c \in Range(present)
  /\ present' = Without(present, c)
  /\ UNCHANGED <<brVars, cloneVars, qsVars, clVars, lkVars, codec, api, relay, snVars, rqVars, closed, ops, cx, retained, registry, remotes,
                 recentlySentTo>>

NextGenesis ==
  \/ \E c \in Dataset : Start(c)
  \/ \E c \in Dataset : Subscribe(c)
  \/ \E c \in Dataset : PublishHello(c)
  \/ \E c \in Dataset : OnHello(c)
  \/ \E c \in Dataset : NewClock(c)
  \/ \E c \in Dataset : Join(c)
  \/ \E c \in Dataset : Leave(c)

SpecGenesis == Init /\ [][NextGenesis]_vars

(* -------------------------- operations topic --------------------------- *)
\* this.isOnline(): more than just me is present on the control topic
isOnline(id) == \E i \in 1..Len(present) : present[i] # id
\* the remotes subscribed to the operations topic
Subscribed == {d \in Dataset : remotes[d].phase \in {"subscribed", "connected"}}
\* the message a remotes publishes for a delta of its clone: msg.toJson()
\* with the channel id header set to this id
updateJson(id, n) == [channel |-> <<id>>, decodable |-> TRUE, n |-> n, by |-> id]
\* the messages another client of the broker may publish on the topic: with
\* any channel id or none, with a delta that can be decoded or cannot
ForeignJson(n) ==
  {[channel |-> ch, decodable |-> dec, n |-> n, by |-> "other"] :
     ch \in {<<>>} \cup {<<d>> : d \in Dataset}, dec \in BOOLEAN}
\* (echoed updates handed on like any other)
onRemoteUpdate_NoEcho(json, id) == IF json.decodable THEN "next" ELSE "close"
\* onRemoteUpdate: echoed updates are ignored; the others are decoded and
\* given to the clone, or close the remotes when they cannot be decoded
onRemoteUpdate(json, id) ==
  IF json.channel = <<>> \/ json.channel # <<id>>
  THEN IF json.decodable THEN "next" ELSE "close"
  ELSE "ignore"

\* the broker sends a message published on the operations topic to every
\* subscriber, the publisher included
Broadcast(json) ==
  /\ broadcast' = Append(broadcast, json)
  /\ operations' = [d \in Dataset |->
                      IF d \in Subscribed THEN Append(operations[d], json)
                      ELSE operations[d]]

\* setLocal, clone.updates next: a delta of the local clone is relayed to
\* the domain, if online
PublishUpdate(c) ==
  /\ remotes[c].phase = "connected" /\ remotes[c].clock # "none"
  /\ isOnline(c)
  /\ Len(broadcast) < MaxPublish
  /\ Broadcast(updateJson(c, Len(broadcast) + 1))
  /\ UNCHANGED <<cloneVars, qsVars, clVars, lkVars, codec, api, relay, snVars, rqVars, closed, ops, cx, retained, registry, remotes,
                 present, recentlySentTo, nextUpdates, sends>>

\* another client publishes on the operations topic
ForeignPublish(json) ==
  /\ Len(broadcast) < MaxPublish
  /\ Broadcast(json)
  /\ UNCHANGED <<cloneVars, qsVars, clVars, lkVars, codec, api, relay, snVars, rqVars, closed, ops, cx, retained, registry, remotes,
                 present, recentlySentTo, nextUpdates, sends>>

\* onMessage on the operations topic: onRemoteUpdate(payload)
OnRemoteUpdate(c) ==
  /\ c \in Subscribed
  /\ operations[c] # <<>>
  /\ LET json == Head(operations[c])
         todo == onRemoteUpdate(json, c)
     IN  /\ nextUpdates' = [nextUpdates EXCEPT ![c] =
                               IF todo = "next" THEN Append(@, json) ELSE @]
         /\ remotes' = [remotes EXCEPT ![c].phase =
                           IF todo = "close" THEN "closed" ELSE @]
         /\ operations' = [operations EXCEPT ![c] =
                             IF todo = "close" THEN <<>> ELSE Tail(@)]
         /\ present' = IF todo = "close" THEN Without(present, c) ELSE present
  /\ UNCHANGED <<cloneVars, qsVars, clVars, lkVars, codec, api, relay, snVars, rqVars, closed, ops, cx, retained, registry,
                 recentlySentTo, broadcast, sends>>

\* the clones have their clocks
Started == \A c \in Clone : remotes[c].clock # "none"

\* two clones connect and, once started, exchange updates over the
\* operations topic
NextEcho ==
  \/ \E c \in Clone : Start(c)
  \/ \E c \in Clone : Subscribe(c)
  \/ \E c \in Clone : PublishHello(c)
  \/ \E c \in Clone : OnHello(c)
  \/ \E c \in Clone : NewClock(c)
  \/ \E c \in Clone : Join(c)
  \/ \E c \in Clone : Leave(c)
  \/ Started /\ \E c \in Clone : PublishUpdate(c)
  \/ Started /\ \E json \in ForeignJson(Len(broadcast) + 1) : ForeignPublish(json)
  \/ \E c \in Clone : OnRemoteUpdate(c)

SpecEcho == Init /\ [][NextEcho]_vars

(* -------------------------------- send --------------------------------- *)
\* (the tried set never cleared)
send_NoReset(id, presentIds, recent) ==
  LET tried == recent \cup {id}
      untried == SelectSeq(presentIds, LAMBDA x : x \notin tried)
  IN  IF untried # <<>>
      THEN [error |-> "", publishTo |-> <<untried[1]>>,
            recentlySentTo |-> tried \cup {untried[1]}]
      ELSE [error |-> "NoneVisible", publishTo |-> <<>>, recentlySentTo |-> tried]
\* send(request): the next send address; with none, NONE_VISIBLE is thrown
\* before anything is published; else the request is published to it
send(id, presentIds, recent) ==
  LET next == nextSendAddress(id, presentIds, recent)
  IN  IF next.toId = <<>>
      THEN [error |-> "NoneVisible", publishTo |-> <<>>,
            recentlySentTo |-> next.recentlySentTo]
      ELSE [error |-> "", publishTo |-> next.toId,
            recentlySentTo |-> next.recentlySentTo]

\* a remotes sends a request
Send(c) ==
  /\ Len(sends) < MaxSend
  /\ LET r == send(c, present, recentlySentTo[c])
     IN  /\ recentlySentTo' = [recentlySentTo EXCEPT ![c] = r.recentlySentTo]
         /\ sends' = Append(sends, [kind |-> "send", from |-> c, present |-> present,
                                    before |-> recentlySentTo[c],
                                    after |-> r.recentlySentTo,
                                    toId |-> r.publishTo, error |-> r.error])
  /\ UNCHANGED <<cloneVars, qsVars, clVars, lkVars, codec, api, relay, snVars, rqVars, closed, ops, cx, retained, registry, remotes,
                 present, broadcast, operations, nextUpdates>>

\* the presence of the control topic changes: a clone joins, or leaves
PresenceJoin(id) ==
  /\ Len(sends) < MaxSend
  /\ id \notin Range(present)
  /\ present' = Append(present, id)
  /\ sends' = Append(sends, [kind |-> "presence"])
  /\ UNCHANGED <<cloneVars, qsVars, clVars, lkVars, codec, api, relay, snVars, rqVars, closed, ops, cx, retained, registry, remotes,
                 recentlySentTo, broadcast, operations, nextUpdates>>
PresenceLeave(id) ==
  /\ Len(sends) < MaxSend
  /\ id \in Range(present)
  /\ present' = Without(present, id)
  /\ sends' = Append(sends, [kind |-> "presence"])
  /\ UNCHANGED <<cloneVars, qsVars, clVars, lkVars, codec, api, relay, snVars, rqVars, closed, ops, cx, retained, registry, remotes,
                 recentlySentTo, broadcast, operations, nextUpdates>>

NextSend ==
  \/ \E c \in Clone : Send(c)
  \/ \E id \in Dataset : PresenceJoin(id)
  \/ \E id \in Dataset : PresenceLeave(id)

SpecSend == Init /\ [][NextSend]_vars

(* ------------------------------ revupFrom ------------------------------ *)
\* (a refusal is never recorded)
revupFromNext_Forget(res, tried) ==
  IF res.canRevup THEN [outcome |-> "updates", tried |-> tried]
  ELSE [outcome |-> "next", tried |-> tried]
\* revupFromNext, once the response has come: the updates of a peer that can
\* revup; else, the refusing peer being recorded, another request; else,
\* the peer having refused before, undefined
revupFromNext(res, tried) ==
  IF res.canRevup THEN [outcome |-> "updates", tried |-> tried]
  ELSE IF res.updatesAddress \notin tried
  THEN [outcome |-> "next", tried |-> tried \cup {res.updatesAddress}]
  ELSE [outcome |-> "undefined", tried |-> tried]

\* this.send(new Request.Revup(time), ack) of revupFromNext, with the peers
\* recorded as having refused: rejected with no peer to send to, else the
\* response is awaited
RevupSend(c, tried) ==
  LET r == send(c, present, recentlySentTo[c])
  IN  /\ recentlySentTo' = [recentlySentTo EXCEPT ![c] = r.recentlySentTo]
      /\ asking' =
           IF r.error # ""
           THEN [asking EXCEPT !.state = "rejected", !.tried = tried]
           ELSE [state |-> "awaiting", tried |-> tried,
                 asked |-> Append(asking.asked,
                                  [toId |-> r.publishTo[1], tried |-> tried,
                                   present |-> present])]

\* revupFrom(time): revupFromNext(time, new Set)
RevupFrom(c) ==
  /\ asking.state = "idle"
  /\ RevupSend(c, {})
  /\ UNCHANGED <<cloneVars, qsVars, clVars, lkVars, codec, api, relay, taking, onlineState, rqVars,
                 closed, ops, cx, retained, registry, remotes, present, broadcast,
                 operations, nextUpdates, sends>>

\* the peer asked answers: replyRevup gives Response.Revup(true, address of
\* the updates) or Response.Revup(false, its clone's id)
RevupResponse(c, canRevup) ==
  /\ asking.state = "awaiting"
  /\ LET toId == asking.asked[Len(asking.asked)].toId
         res == [canRevup |-> canRevup,
                 updatesAddress |-> IF canRevup THEN <<toId, "updates">> ELSE toId]
         next == revupFromNext(res, asking.tried)
     IN  IF next.outcome = "next" /\ Len(asking.asked) < MaxAsk
         THEN RevupSend(c, next.tried)
         ELSE /\ asking' = [asking EXCEPT !.state = next.outcome, !.tried = next.tried]
              /\ UNCHANGED recentlySentTo
  /\ UNCHANGED <<cloneVars, qsVars, clVars, lkVars, codec, api, relay, taking, onlineState, rqVars,
                 closed, ops, cx, retained, registry, remotes, present, broadcast,
                 operations, nextUpdates, sends>>

\* no response comes: the send is rejected with 'Send timeout exceeded.'
RevupTimeout(c) ==
  /\ asking.state = "awaiting"
  /\ asking' = [asking EXCEPT !.state = "rejected"]
  /\ UNCHANGED <<cloneVars, qsVars, clVars, lkVars, codec, api, relay, taking, onlineState, rmVars,
                 rqVars>>

\* the requester sends requests and asks for a revup while clones join and
\* leave the presence
NextAsk ==
  \/ Len(sends) < MaxEvent /\ Send(Requester)
  \/ Len(sends) < MaxEvent /\ \E id \in Dataset : PresenceJoin(id)
  \/ Len(sends) < MaxEvent /\ \E id \in Dataset : PresenceLeave(id)
  \/ RevupFrom(Requester)
  \/ \E canRevup \in BOOLEAN : RevupResponse(Requester, canRevup)
  \/ RevupTimeout(Requester)

SpecAsk == Init /\ [][NextAsk]_vars

(* ---------------------------- onlineState status ---------------------------- *)
\* reduce((online, id) => online || id !== this.id, false) over the ids
\* that presence.present emits
RECURSIVE reduceOnline(_, _, _)
reduceOnline(presentIds, id, acc) ==
  IF presentIds = <<>> THEN acc
  ELSE reduceOnline(Tail(presentIds), id, acc \/ Head(presentIds) # id)
\* the changes of presence so far
PresenceChanges == Len(SelectSeq(sends, LAMBDA e : e.kind = "presence"))

\* presence.on('change'): the listener starts a read of the presence, whose
\* result is given to setOnline when the read completes
OnPresenceChange(c) ==
  /\ onlineState.changes < PresenceChanges
  /\ onlineState' = [onlineState EXCEPT
       !.changes = @ + 1, !.closed = FALSE,
       !.reads = Append(@, IF reduceOnline(present, c, FALSE) THEN "true" ELSE "false")]
  /\ UNCHANGED <<cloneVars, qsVars, clVars, lkVars, codec, api, relay, taking, asking,
                 rmVars, rqVars>>

\* a read of the presence completes: subscribe(online => this.setOnline(online))
PresentRead(i) ==
  /\ i \in DOMAIN onlineState.reads
  /\ onlineState' = [onlineState EXCEPT
       !.status = onlineState.reads[i],
       !.reads = SubSeq(@, 1, i - 1) \o SubSeq(@, i + 1, Len(@))]
  /\ UNCHANGED <<cloneVars, qsVars, clVars, lkVars, codec, api, relay, taking, asking,
                 rmVars, rqVars>>

\* mqtt.on('close'): a disconnect, definitely offline: setOnline(null)
MqttClose ==
  /\ ~onlineState.closed
  /\ onlineState' = [onlineState EXCEPT !.status = "null", !.closed = TRUE]
  /\ UNCHANGED <<cloneVars, qsVars, clVars, lkVars, codec, api, relay, taking, asking,
                 rmVars, rqVars>>

\* clones join and leave the presence, the transport of the requester is
\* disconnected, and its listeners are called
NextOnline ==
  \/ Len(sends) < MaxChange /\ \E id \in Dataset : PresenceJoin(id)
  \/ Len(sends) < MaxChange /\ \E id \in Dataset : PresenceLeave(id)
  \/ OnPresenceChange(Requester)
  \/ \E i \in 1..MaxChange : PresentRead(i)
  \/ MqttClose

SpecOnline == Init /\ [][NextOnline]_vars

(* ------------------- getResponse, onSent, reply, onReply ---------------- *)
\* the bodies of the responses: Response.NewClock, Response.Snapshot with its
\* data and updates addresses, Response.Revup with canRevup and its updates
\* address, and null, the body of an ack
NoBody == [type |-> "none", canRevup |-> FALSE, addresses |-> <<>>]
NullBody == [type |-> "null", canRevup |-> FALSE, addresses |-> <<>>]
TimeoutError ==
  [type |-> "Send timeout exceeded.", canRevup |-> FALSE, addresses |-> <<>>]
ResponseBody(req, canRevup, sentMessageId) ==
  CASE req = "NewClock" -> [type |-> "NewClock", canRevup |-> FALSE, addresses |-> <<>>]
    [] req = "Snapshot" ->
         [type |-> "Snapshot", canRevup |-> FALSE,
          addresses |-> << <<sentMessageId, "data">>, <<sentMessageId, "updates">> >>]
    [] req = "Revup" ->
         [type |-> "Revup", canRevup |-> canRevup,
          addresses |-> IF canRevup THEN << <<sentMessageId, "updates">> >> ELSE <<>>]
\* a reply from elsewhere
ForeignBody == [type |-> "foreign", canRevup |-> FALSE, addresses |-> <<>>]

\* messageId = uuid(): a message of remotes owner; no future yet
NewMessage(owner, req, produces) ==
  [owner |-> owner, req |-> req, state |-> "none", value |-> NoBody, settles |-> 0,
   ack |-> "none", replyParams |-> <<>>, produces |-> produces]
\* the requests among the messages
Requests == {m \in 1..Len(response) : response[m].req # "reply"}

\* Future.resolve and Future.reject: a settled future ignores them
FutureSettle(fut, state, value) ==
  [fut EXCEPT !.settles = @ + 1,
              !.state = IF fut.state = "pending" THEN state ELSE @,
              !.value = IF fut.state = "pending" THEN value ELSE @]

\* the reply resolvers and timers of one remotes with the futures
ResolversOf(c) ==
  [replyResolvers |-> replyResolvers[c], timer |-> timer, response |-> response]

\* getResponse(messageId, ack): a new future, its timer, and its resolver
getResponse(q, messageId, ack) ==
  [replyResolvers |-> q.replyResolvers \cup {messageId},
   timer |-> q.timer \cup {messageId},
   response |-> [q.response EXCEPT ![messageId].state = "pending",
                                  ![messageId].ack = ack]]
\* the timer's callback
timeoutFires(q, messageId) ==
  [replyResolvers |-> q.replyResolvers \ {messageId},
   timer |-> q.timer \ {messageId},
   response |-> [q.response EXCEPT
                   ![messageId] = FutureSettle(@, "rejected", TimeoutError)]]
\* (the timer left running)
resolver_KeepTimer(q, messageId, res) ==
  [replyResolvers |-> q.replyResolvers \ {messageId},
   timer |-> q.timer,
   response |-> [q.response EXCEPT ![messageId] = FutureSettle(@, "resolved", res)]]
\* the resolver registered by getResponse
resolver(q, messageId, res) ==
  [replyResolvers |-> q.replyResolvers \ {messageId},
   timer |-> q.timer \ {messageId},
   response |-> [q.response EXCEPT ![messageId] = FutureSettle(@, "resolved", res)]]
\* onReply: a reply to a message with no resolver is dropped
onReply(q, sentMessageId, res) ==
  IF sentMessageId \in q.replyResolvers THEN resolver(q, sentMessageId, res) ELSE q

\* send(request, ack): the message id, the address, the publish, getResponse
SendRequest(c, req) ==
  /\ Cardinality(Requests) < MaxRequest
  /\ LET messageId == Len(response) + 1
         r == send(c, present, recentlySentTo[c])
         made == Append(response, NewMessage(c, req, <<>>))
         q == getResponse([replyResolvers |-> replyResolvers[c], timer |-> timer,
                           response |-> made],
                          messageId, IF req = "NewClock" THEN "none" ELSE "pending")
     IN  /\ recentlySentTo' = [recentlySentTo EXCEPT ![c] = r.recentlySentTo]
         /\ IF r.error # ""
            THEN /\ response' = made
                 /\ UNCHANGED <<replyResolvers, timer, sentTopic>>
            ELSE /\ sentTopic' = sentTopic \cup
                      {[toId |-> r.publishTo[1], fromId |-> c,
                        messageId |-> messageId, req |-> req]}
                 /\ replyResolvers' = [replyResolvers EXCEPT ![c] = q.replyResolvers]
                 /\ timer' = q.timer
                 /\ response' = q.response
  /\ UNCHANGED <<cloneVars, qsVars, clVars, lkVars, codec, api, relay, snVars, closed, ops, cx, retained, registry, remotes,
                 present, brVars, consuming, replyTopic, nForeign, stVars>>

\* onSent: the request is answered by the local clone, if there is one;
\* reply(sentParams, res, expectAck) publishes the response and, when an ack
\* is expected, awaits it with getResponse
OnSent(d, canRevup) ==
  \E msg \in sentTopic :
    /\ msg.toId = d
    /\ sentTopic' = sentTopic \ {msg}
    /\ IF ~localClone[d]
       THEN UNCHANGED <<replyResolvers, response, timer, replyTopic>>
       ELSE LET messageId == Len(response) + 1
                body == ResponseBody(msg.req, canRevup, msg.messageId)
                made == Append(response, NewMessage(d, "reply", body.addresses))
                expectAck == body.addresses # <<>>
                q == getResponse([replyResolvers |-> replyResolvers[d],
                                  timer |-> timer, response |-> made],
                                 messageId, "none")
            IN  /\ replyTopic' = replyTopic \cup
                      {[toId |-> msg.fromId, fromId |-> d, messageId |-> messageId,
                        sentMessageId |-> msg.messageId, body |-> body]}
                /\ IF expectAck
                   THEN /\ replyResolvers' = [replyResolvers EXCEPT ![d] = q.replyResolvers]
                        /\ timer' = q.timer
                        /\ response' = q.response
                   ELSE /\ response' = made
                        /\ UNCHANGED <<replyResolvers, timer>>
  /\ UNCHANGED <<cloneVars, qsVars, clVars, lkVars, codec, api, relay, snVars, rmVars, consuming, nForeign, stVars>>

\* onReply(json, replyParams): the resolver of the message replied to, if any,
\* is called; with an ack, the handler then awaits it
OnReply(c) ==
  \E r \in replyTopic :
    /\ r.toId = c
    /\ replyTopic' = replyTopic \ {r}
    /\ LET q == onReply(ResolversOf(c), r.sentMessageId, r.body)
           m == r.sentMessageId
       IN  /\ replyResolvers' = [replyResolvers EXCEPT ![c] = q.replyResolvers]
           /\ timer' = q.timer
           /\ response' =
                IF m \in replyResolvers[c] /\ response[m].ack = "pending"
                THEN [q.response EXCEPT ![m].replyParams = <<r>>]
                ELSE q.response
  /\ UNCHANGED <<cloneVars, qsVars, clVars, lkVars, codec, api, relay, snVars, rmVars, sentTopic, consuming, nForeign, stVars>>

\* the notifications published on an address so far
StreamOf(address) == IF address \in DOMAIN streams THEN streams[address] ELSE <<>>

\* (nothing to consume before the ack)
ToConsume_None(c, m) == <<>>
\* the addresses of a response that its requester has yet to consume
ToConsume(c, m) ==
  SelectSeq(response[m].value.addresses, LAMBDA a : a \notin consuming[c])
\* the response to a request with an ack has come
Responded(c, m) ==
  /\ m \in 1..Len(response)
  /\ m \in Requests
  /\ response[m].owner = c
  /\ response[m].state = "resolved"
  /\ response[m].ack = "pending"
  /\ response[m].replyParams # <<>>
  /\ response[m].value.addresses # <<>>

\* snapshot, revupFromNext: consume(address) subscribes to the next address
Consume(c, m) ==
  /\ Responded(c, m)
  /\ ToConsume(c, m) # <<>>
  /\ LET address == ToConsume(c, m)[1]
     IN  /\ consuming' = [consuming EXCEPT ![c] = @ \cup {address}]
         /\ consumed' = (address :> [from |-> Len(StreamOf(address)),
                                     cursor |-> Len(StreamOf(address)),
                                     next |-> <<>>, state |-> "open"]) @@ consumed
  /\ UNCHANGED <<cloneVars, qsVars, clVars, lkVars, codec, api, relay, snVars, rmVars, replyResolvers, response, sentTopic,
                 timer, replyTopic, nForeign, producing, streams>>

\* snapshot, revupFromNext: ack.resolve(null); onReply, which awaited the
\* ack, replies to the reply with a null body
SendAck(c, m) ==
  /\ Responded(c, m)
  /\ ToConsume(c, m) = <<>>
  /\ LET rp == response[m].replyParams[1]
         messageId == Len(response) + 1
     IN  /\ response' = Append([response EXCEPT ![m].ack = "resolved"],
                               NewMessage(c, "reply", <<>>))
         /\ replyTopic' = replyTopic \cup
               {[toId |-> rp.fromId, fromId |-> c, messageId |-> messageId,
                 sentMessageId |-> rp.messageId, body |-> NullBody]}
  /\ UNCHANGED <<cloneVars, qsVars, clVars, lkVars, codec, api, relay, snVars, rmVars, replyResolvers, sentTopic, consuming,
                 timer, nForeign, stVars>>

\* sendTimeout has passed since getResponse(messageId)
Timeout(m) ==
  /\ m \in timer
  /\ LET c == response[m].owner
         q == timeoutFires(ResolversOf(c), m)
     IN  /\ replyResolvers' = [replyResolvers EXCEPT ![c] = q.replyResolvers]
         /\ timer' = q.timer
         /\ response' = q.response
  /\ UNCHANGED <<cloneVars, qsVars, clVars, lkVars, codec, api, relay, snVars, rmVars, sentTopic, consuming, replyTopic,
                 nForeign, stVars>>

\* a reply from elsewhere, to a message id that may never have been made;
\* an ack to a response comes from its requester only
ForeignReply(c, sentMessageId) ==
  /\ nForeign < MaxForeign
  /\ sentMessageId \in 1..Len(response) => sentMessageId \in Requests
  /\ nForeign' = nForeign + 1
  /\ replyTopic' = replyTopic \cup
        {[toId |-> c, fromId |-> "elsewhere", messageId |-> 0,
          sentMessageId |-> sentMessageId, body |-> ForeignBody]}
  /\ UNCHANGED <<cloneVars, qsVars, clVars, lkVars, codec, api, relay, snVars, rmVars, replyResolvers, response, sentTopic,
                 consuming, timer, stVars>>

(* ------------------- produce, notify, matchConsuming -------------------- *)
NextNotification(n) == [kind |-> "next", n |-> n]
CompleteNotification == [kind |-> "complete", n |-> 0]
ErrorNotification == [kind |-> "error", n |-> 0]

\* the ack a response expected has come
Acked(d, m) ==
  /\ m \in 1..Len(response)
  /\ response[m].owner = d
  /\ response[m].req = "reply"
  /\ response[m].state = "resolved"
  /\ response[m].produces # <<>>

\* replySnapshot, replyRevup after the ack: produce(data, address) subscribes
\* to the observable of each address
Produce(d, m) ==
  /\ Acked(d, m)
  /\ \A a \in Range(response[m].produces) : a \notin DOMAIN producing
  /\ producing' = [a \in Range(response[m].produces) |->
                     [by |-> d, emitted |-> 0, ended |-> FALSE, failed |-> 0,
                      queue |-> <<>>]] @@ producing
  /\ streams' = [a \in Range(response[m].produces) |-> <<>>] @@ streams
  /\ UNCHANGED <<cloneVars, qsVars, clVars, lkVars, codec, api, relay, snVars, rmVars, replyResolvers, response, sentTopic,
                 consuming, timer, replyTopic, nForeign, consumed>>

\* notify(address, notification): the notification waits for the notify lock
\* of the address, behind those that asked for it before
notify(production, notification) ==
  [production EXCEPT !.queue = Append(@, notification)]

\* the conversion or the publication of the notification holding the lock
\* fails: for a next, the error is notified and the observable unsubscribed;
\* for a complete or an error, the failure is logged
notifyFailed(production) ==
  LET head == production.queue[1]
      rest == [production EXCEPT !.queue = Tail(@), !.failed = @ + 1]
  IN  IF head.kind = "next"
      THEN [notify(rest, ErrorNotification) EXCEPT !.ended = TRUE]
      ELSE rest

\* the observable streamed on an address emits a datum
EmitNext(a) ==
  /\ a \in DOMAIN producing
  /\ ~producing[a].ended
  /\ producing[a].emitted < MaxDatum
  /\ producing' = [producing EXCEPT
                     ![a] = [notify(@, NextNotification(@.emitted + 1))
                               EXCEPT !.emitted = @ + 1]]
  /\ UNCHANGED <<cloneVars, qsVars, clVars, lkVars, codec, api, relay, snVars, rmVars, replyResolvers, response, sentTopic,
                 consuming, timer, replyTopic, nForeign, streams, consumed>>

\* the observable completes, or fails
EmitEnd(a, notification) ==
  /\ a \in DOMAIN producing
  /\ ~producing[a].ended
  /\ producing' = [producing EXCEPT ![a] = [notify(@, notification) EXCEPT !.ended = TRUE]]
  /\ UNCHANGED <<cloneVars, qsVars, clVars, lkVars, codec, api, relay, snVars, rmVars, replyResolvers, response, sentTopic,
                 consuming, timer, replyTopic, nForeign, streams, consumed>>

\* the notification holding the notify lock of the address is converted and
\* published, or one of the two fails
Notify(a, ok) ==
  /\ a \in DOMAIN producing
  /\ producing[a].queue # <<>>
  /\ IF ok
     THEN /\ streams' = [streams EXCEPT ![a] = Append(@, producing[a].queue[1])]
          /\ producing' = [producing EXCEPT ![a].queue = Tail(@)]
     ELSE /\ producing[a].failed < MaxFail
          /\ producing' = [producing EXCEPT ![a] = notifyFailed(@)]
          /\ UNCHANGED streams
  /\ UNCHANGED <<cloneVars, qsVars, clVars, lkVars, codec, api, relay, snVars, rmVars, replyResolvers, response, sentTopic,
                 consuming, timer, replyTopic, nForeign, consumed>>

\* matchConsuming: the notification is given to the source of its address;
\* a source that has completed or failed takes no more
matchConsuming(source, notification) ==
  IF source.state # "open"
  THEN [source EXCEPT !.cursor = @ + 1]
  ELSE CASE notification.kind = "next" ->
              [source EXCEPT !.next = Append(@, notification.n), !.cursor = @ + 1]
         [] notification.kind = "complete" ->
              [source EXCEPT !.state = "complete", !.cursor = @ + 1]
         [] notification.kind = "error" ->
              [source EXCEPT !.state = "error", !.cursor = @ + 1]

\* onMessage: the next notification published on an address is given to
\* the remotes that subscribed to it
MatchConsuming(c, a) ==
  /\ a \in consuming[c]
  /\ consumed[a].cursor < Len(StreamOf(a))
  /\ consumed' = [consumed EXCEPT
                    ![a] = matchConsuming(@, StreamOf(a)[consumed[a].cursor + 1])]
  /\ UNCHANGED <<cloneVars, qsVars, clVars, lkVars, codec, api, relay, snVars, rmVars, replyResolvers, response, sentTopic,
                 consuming, timer, replyTopic, nForeign, producing, streams>>

\* the message ids uuid() makes: a request, its response and the ack
MessageId == 1..(3 * MaxRequest)
\* the addresses of the streams
Address == MessageId \X {"data", "updates"}

\* the requests of the remotes and their replies
NextRequest ==
  \/ \E id \in Clone : PresenceJoin(id)
  \/ \E c \in Clone : \E req \in {"NewClock", "Snapshot", "Revup"} : SendRequest(c, req)
  \/ \E d \in Clone : \E canRevup \in BOOLEAN : OnSent(d, canRevup)
  \/ \E c \in Clone : OnReply(c)
  \/ \E c \in Clone : \E m \in MessageId : Consume(c, m)
  \/ \E c \in Clone : \E m \in MessageId : SendAck(c, m)
  \/ \E m \in MessageId : Timeout(m)
  \/ \E c \in Clone : \E m \in 1..(Len(response) + 1) : ForeignReply(c, m)

SpecRequest == Init /\ [][NextRequest]_vars
\* setTimeout: the callback of a timer that is not cleared runs
SpecRequestLive == SpecRequest /\ \A m \in MessageId : WF_vars(Timeout(m))

\* the requests, their replies, and the streams that follow the ack
NextStream ==
  \/ \E id \in Clone : PresenceJoin(id)
  \/ \E c \in Clone : \E req \in {"Snapshot", "Revup"} : SendRequest(c, req)
  \/ \E d \in Clone : \E canRevup \in BOOLEAN : OnSent(d, canRevup)
  \/ \E c \in Clone : OnReply(c)
  \/ \E c \in Clone : \E m \in MessageId : Consume(c, m)
  \/ \E c \in Clone : \E m \in MessageId : SendAck(c, m)
  \/ \E m \in MessageId : Timeout(m)
  \/ \E d \in Clone : \E m \in MessageId : Produce(d, m)
  \/ \E a \in Address : EmitNext(a)
  \/ \E a \in Address : \E n \in {CompleteNotification, ErrorNotification} : EmitEnd(a, n)
  \/ \E a \in Address : \E ok \in BOOLEAN : Notify(a, ok)
  \/ \E c \in Clone : \E a \in Address : MatchConsuming(c, a)

SpecStream == Init /\ [][NextStream]_vars

(* ----------------------------- close, setLocal ------------------------- *)
\* close(err): super.close finalises the updates, which notifies the clone;
\* the reply resolvers and their timers are left as they are
CloseRemotes(c) ==
  /\ ~closing[c].closed
  /\ closing' = [closing EXCEPT ![c].closed = TRUE,
                                ![c].inFlight = replyResolvers[c]]
  /\ UNCHANGED <<cloneVars, qsVars, rmVars, rqVars, localClone, lkVars, codec, api, relay, snVars>>
\* close, after its await: mqtt.end().  The promise awaited is that of
\* localClone.pipe(first(null)): first with no predicate takes the value the
\* BehaviorSubject holds, a clone or null, so the await ends at once
MqttEnd(c) ==
  /\ closing[c].closed /\ ~closing[c].ended
  /\ closing' = [closing EXCEPT ![c].ended = TRUE]
  /\ UNCHANGED <<cloneVars, qsVars, rmVars, rqVars, localClone, lkVars, codec, api, relay, snVars>>
\* setLocal(null) by the clone that was notified: the clone leaves the
\* presence, and is then unset
SetLocalNull(c) ==
  /\ closing[c].closed /\ localClone[c]
  /\ localClone' = [localClone EXCEPT ![c] = FALSE]
  /\ present' = IF closing[c].ended THEN present ELSE Without(present, c)
  /\ UNCHANGED <<cloneVars, qsVars, rqVars, closed, ops, cx, retained, registry,
                 remotes, recentlySentTo, brVars, closing, lkVars, codec, api, relay, snVars>>

\* the connection of the remotes is up
Connected(c) == ~closing[c].ended

\* the requests of the remotes, and the remotes closing
NextClose ==
  \/ \E id \in Clone : PresenceJoin(id)
  \/ \E c \in Clone : \E req \in {"NewClock", "Snapshot", "Revup"} :
       ~closing[c].closed /\ SendRequest(c, req)
  \/ \E d \in Clone : \E canRevup \in BOOLEAN : Connected(d) /\ OnSent(d, canRevup)
  \/ \E c \in Clone : Connected(c) /\ OnReply(c)
  \/ \E m \in MessageId : Timeout(m)
  \/ \E c \in Clone : CloseRemotes(c)
  \/ \E c \in Clone : MqttEnd(c)
  \/ \E c \in Clone : SetLocalNull(c)

SpecClose == Init /\ [][NextClose]_vars

(* ------------- SuSetDataset.initialise, close: the datasetLock ---------- *)
\* LocalLock.acquire by dataset i: the lock of the location is taken when it
\* is free, and the acquisition is refused when it is held
acquire(lock, i) ==
  IF lock = NoHolder THEN [ok |-> TRUE, lock |-> i] ELSE [ok |-> FALSE, lock |-> lock]
\* LocalLock.release by dataset i: the lock is freed when i holds it
release(lock, i) == IF lock = i THEN NoHolder ELSE lock

\* journal.initialise: the patch that creates the journal, if there is none
journalInitialise(n) == IF n = 0 THEN 1 ELSE 0

initialise_IgnoreLock(acquired) == "acquired"
\* initialise, to its second await: a refused acquisition is thrown as
\* 'Clone data is locked', and the transaction 'suset-reset' is not reached
initialise(acquired) == IF acquired.ok THEN "acquired" ELSE "Clone data is locked"

\* new SuSetDataset on location l: new LocalLock(config['@id'], dataset.location)
NewDataset(i, l) ==
  /\ datasets[i].state = "none"
  /\ datasets' = [datasets EXCEPT ![i] = [state |-> "new", location |-> l, refused |-> 0]]
  /\ UNCHANGED <<cloneVars, qsVars, rmVars, rqVars, localClone, closing,
                 datasetLock, journals, codec, api, relay, snVars>>

\* initialise: await this.datasetLock.acquire(), on a dataset not closed
InitialiseAcquire(i) ==
  LET l == datasets[i].location
      acquired == acquire(datasetLock[l], i)
  IN /\ datasets[i].state \in {"new", "Clone data is locked"}
     /\ ~acquired.ok => datasets[i].refused < MaxRefuse
     /\ datasetLock' = [datasetLock EXCEPT ![l] = acquired.lock]
     /\ datasets' = [datasets EXCEPT
          ![i].state = initialise(acquired),
          ![i].refused = IF acquired.ok THEN @ ELSE @ + 1]
     /\ UNCHANGED <<cloneVars, qsVars, rmVars, rqVars, localClone, closing, journals, codec, api, relay, snVars>>

\* initialise, after the lock was acquired: the transaction 'suset-reset'
\* creates the Journal if not exists
InitialiseReset(i) ==
  LET l == datasets[i].location
  IN /\ datasets[i].state = "acquired"
     /\ journals' = [journals EXCEPT ![l] = @ + journalInitialise(@)]
     /\ datasets' = [datasets EXCEPT ![i].state = "open"]
     /\ UNCHANGED <<cloneVars, qsVars, rmVars, rqVars, localClone, closing, datasetLock, codec, api, relay, snVars>>

\* close of a dataset not closed and not initialising: the lock is released
\* and the dataset closed
CloseDataset(i) ==
  LET l == datasets[i].location
  IN /\ datasets[i].state \in {"new", "open", "Clone data is locked"}
     /\ datasetLock' = [datasetLock EXCEPT ![l] = release(@, i)]
     /\ datasets' = [datasets EXCEPT ![i].state = "closed"]
     /\ UNCHANGED <<cloneVars, qsVars, rmVars, rqVars, localClone, closing, journals, codec, api, relay, snVars>>

\* datasets made on the storage locations, initialised and closed
NextLock ==
  \/ \E i \in Instance : \E l \in Location : NewDataset(i, l)
  \/ \E i \in Instance : InitialiseAcquire(i)
  \/ \E i \in Instance : InitialiseReset(i)
  \/ \E i \in Instance : CloseDataset(i)

SpecLock == Init /\ [][NextLock]_vars

(* ------------- setLocal: the updates of the clone are relayed ----------- *)
onUpdate_Always(online) == "publish"
\* clone.updates next: if we are not online, we just ignore updates
onUpdate(online) == IF online THEN "publish" ELSE "ignore"

\* the clone commits its next delta, in journal order, and pushes it to its
\* updates: the remotes call mqtt.publish for it if they are online
UpdateNext(c) ==
  LET n == relay[c].emitted + 1
  IN  /\ n <= MaxDelta
      /\ relay' = [relay EXCEPT
           ![c].emitted = n,
           ![c].outgoing = IF onUpdate(isOnline(c)) = "publish" THEN Append(@, n) ELSE @,
           ![c].ignored = IF onUpdate(isOnline(c)) = "publish" THEN @ ELSE @ \cup {n}]
      /\ UNCHANGED <<cloneVars, qsVars, clVars, lkVars, codec, api, snVars, rmVars, rqVars>>

\* the promise of mqtt.publish is settled, for the publishes in the order of
\* their calls: resolved, and the message is marked delivered; or rejected,
\* the message having reached the broker or not, and the remotes reconnect
Published(c, sent, ok) ==
  /\ relay[c].outgoing # <<>>
  /\ ok => sent
  /\ LET n == Head(relay[c].outgoing)
     IN  /\ relay' = [relay EXCEPT
              ![c].outgoing = Tail(@),
              ![c].delivered = IF ok THEN @ \cup {n} ELSE @,
              ![c].failed = IF ok THEN @ ELSE @ \cup {n}]
         /\ IF sent THEN Broadcast(updateJson(c, n))
                    ELSE UNCHANGED <<broadcast, operations>>
  /\ UNCHANGED <<cloneVars, qsVars, clVars, lkVars, codec, api, snVars, rqVars, closed, ops,
                 cx, retained, registry, remotes, present, recentlySentTo, nextUpdates,
                 sends>>

\* a clone relays its updates while clones join and leave the presence
NextPublish ==
  \/ \E id \in Clone : PresenceJoin(id)
  \/ \E id \in Clone : PresenceLeave(id)
  \/ UpdateNext(Responder)
  \/ \E sent, ok \in BOOLEAN : Published(Responder, sent, ok)

SpecPublish == Init /\ [][NextPublish]_vars

(* ------------------ ApiStateMachine.write procedures -------------------- *)
stateLockFree_Always(running) == TRUE
\* the state lock is free: no procedure is running
stateLockFree(running) == running = {}

\* api.write(procedure), of a procedure that makes n writes
SubmitWrite(n) ==
  /\ Len(api.todo) < MaxProc
  /\ api' = [api EXCEPT !.todo = Append(@, n), !.made = Append(@, 0),
                        !.wrote = Append(@, {})]
  /\ UNCHANGED <<cloneVars, qsVars, rmVars, rqVars, clVars, lkVars, codec, relay, snVars>>

\* the procedure submitted first of those not started is started, when the
\* state lock is free
StartProcedure ==
  LET k == api.started + 1
  IN  /\ k <= Len(api.todo)
      /\ stateLockFree(api.running)
      /\ api' = [api EXCEPT !.started = k, !.running = @ \cup {k}]
      /\ UNCHANGED <<cloneVars, qsVars, rmVars, rqVars, clVars, lkVars, codec, relay, snVars>>

\* state.write(request) in procedure k: a transaction of the clone
ProcWrite(k, patch) ==
  /\ k \in api.running /\ api.made[k] < api.todo[k]
  /\ TransactUpTo(Responder, patch, MaxProc * MaxProcWrite)
  /\ api' = [api EXCEPT
       !.made[k] = @ + 1,
       !.wrote[k] = IF minted'[Responder] # minted[Responder]
                    THEN @ \cup {uuid(Responder)} ELSE @]

\* state.read(request) in procedure k, on the state returned by its write
ProcRead(k) ==
  /\ k \in api.running /\ api.made[k] > 0
  /\ LockFree(Responder)
  /\ api' = [api EXCEPT !.read =
       [by |-> k, tids |-> AllTidsOf(store[Responder]), own |-> api.wrote[k],
        ended |-> api.ended, submitted |-> Len(api.todo)]]
  /\ UNCHANGED <<cloneVars, qsVars, rmVars, rqVars, clVars, lkVars, codec, relay, snVars>>

\* procedure k returns, its writes made: the state lock is released
EndProcedure(k) ==
  /\ k \in api.running /\ api.made[k] = api.todo[k]
  /\ LockFree(Responder)
  /\ api' = [api EXCEPT !.running = @ \ {k}, !.ended = @ \cup {k}]
  /\ UNCHANGED <<cloneVars, qsVars, rmVars, rqVars, clVars, lkVars, codec, relay, snVars>>

\* write procedures given to the responder, started in turn and run
NextProcedure ==
  \/ \E n \in 1..MaxProcWrite : SubmitWrite(n)
  \/ StartProcedure
  \/ \E k \in 1..MaxProc, patch \in InsertsOnly : ProcWrite(k, patch)
  \/ \E k \in 1..MaxProc : ProcRead(k)
  \/ \E k \in 1..MaxProc : EndProcedure(k)
  \/ Commit(Responder)
  \/ Deliver(Responder)

SpecProcedure == Init /\ [][NextProcedure]_vars

(* ------------------ MeldEncoding.newDelta, asDelta ---------------------- *)
\* the transaction ids and the deleted triples, with their tids, of the
\* deltas encoded
CodecTid == {<<"A", 1>>, <<"B", 1>>}
CodecDeletes ==
  {{[triple |-> t, tids |-> {<<"A", 0>>}] : t \in ts} : ts \in SUBSET Triple}

\* newDelta of a transaction id, inserted triples and reified deletes
NewDelta(tid, insert, deleted) ==
  /\ codec' = [op |-> "newDelta",
               delta |-> newDelta(tid, insert, reifyTriplesTids(deleted)),
               encoded |-> <<>>, decoded |-> <<>>]
  /\ UNCHANGED <<cloneVars, qsVars, rmVars, rqVars, clVars, lkVars, api, relay, snVars>>

\* asDelta of the delta last encoded, as it arrives with version ver
AsDelta(ver) ==
  /\ codec.op = "newDelta"
  /\ LET encoded == [codec.delta.encoded EXCEPT ![1] = ver]
     IN  codec' = [codec EXCEPT !.op = "asDelta", !.encoded = encoded,
                                !.decoded = asDelta(encoded)]
  /\ UNCHANGED <<cloneVars, qsVars, rmVars, rqVars, clVars, lkVars, api, relay, snVars>>

\* deltas encoded and decoded
NextCodec ==
  \/ \E tid \in CodecTid, insert \in SUBSET Triple, deleted \in CodecDeletes :
       NewDelta(tid, insert, deleted)
  \/ \E ver \in 0..MaxVersion : AsDelta(ver)

SpecCodec == Init /\ [][NextCodec]_vars

(* ------------- reifyTriplesTids and unreify, on the arrays -------------- *)
\* the terms of the rdf factory: named nodes, blank nodes and literals
NamedNode(v) == [termType |-> "NamedNode", value |-> v]
BlankNode(n) == [termType |-> "BlankNode", value |-> <<"b", n>>]
Literal(v) == [termType |-> "Literal", value |-> v]
Quad(s, p, o) == [subject |-> s, predicate |-> p, object |-> o]
\* the triples of the maps: one with a literal, one with a named node as
\* its object
ReifyTriple ==
  {Quad(NamedNode("fred"), NamedNode("name"), Literal("Flintstone")),
   Quad(NamedNode("fred"), NamedNode("wife"), NamedNode("wilma"))}
\* the lists of tids of the maps, none of them empty
ReifyTids == {<<"ta">>, <<"ta", "tb">>}
\* the maps from triples to tids, as the entries of the TripleMap in order
ReifyMap ==
  {<<[triple |-> t, tids |-> ts]>> : t \in ReifyTriple, ts \in ReifyTids}
    \cup {<<[triple |-> t, tids |-> ts], [triple |-> u, tids |-> us]>> :
            <<t, u>> \in {x \in ReifyTriple \X ReifyTriple : x[1] # x[2]},
            <<ts, us>> \in ReifyTids \X ReifyTids}

\* the statements of one entry, with the blank node made for it
reifyEntry(rid, triple, tids) ==
  <<Quad(rid, NamedNode("rdf:type"), NamedNode("rdf:Statement")),
    Quad(rid, NamedNode("rdf:subject"), triple.subject),
    Quad(rid, NamedNode("rdf:predicate"), triple.predicate),
    Quad(rid, NamedNode("rdf:object"), triple.object)>>
    \o [i \in 1..Len(tids) |-> Quad(rid, NamedNode("m-ld:tid"), Literal(tids[i]))]
\* MeldEncoding.reifyTriplesTids: flatten of the statements of the entries,
\* each with a blank node of its own
RECURSIVE reifyTriplesTidsFrom(_, _)
reifyTriplesTidsFrom(triplesTids, n) ==
  IF triplesTids = <<>> THEN <<>>
  ELSE reifyEntry(BlankNode(n), Head(triplesTids).triple, Head(triplesTids).tids)
         \o reifyTriplesTidsFrom(Tail(triplesTids), n + 1)

\* [{}, []]: the pair unreify starts an rid with
NoPair(rid) ==
  [rid |-> rid, triple |-> [subject |-> <<>>, predicate |-> <<>>, object |-> <<>>],
   tids |-> <<>>]
\* (a tid replaces the tids found before)
unreifyReduce_OneTid(pair, reification) ==
  CASE reification.predicate.value = "rdf:subject" ->
         IF reification.object.termType = "NamedNode"
         THEN [pair EXCEPT !.triple.subject = reification.object] ELSE pair
    [] reification.predicate.value = "rdf:predicate" ->
         IF reification.object.termType = "NamedNode"
         THEN [pair EXCEPT !.triple.predicate = reification.object] ELSE pair
    [] reification.predicate.value = "rdf:object" ->
         [pair EXCEPT !.triple.object = reification.object]
    [] reification.predicate.value = "m-ld:tid" ->
         [pair EXCEPT !.tids = <<reification.object.value>>]
    [] OTHER -> pair
\* the switch of unreify on the predicate of a reification statement
unreifyReduce(pair, reification) ==
  CASE reification.predicate.value = "rdf:subject" ->
         IF reification.object.termType = "NamedNode"
         THEN [pair EXCEPT !.triple.subject = reification.object] ELSE pair
    [] reification.predicate.value = "rdf:predicate" ->
         IF reification.object.termType = "NamedNode"
         THEN [pair EXCEPT !.triple.predicate = reification.object] ELSE pair
    [] reification.predicate.value = "rdf:object" ->
         [pair EXCEPT !.triple.object = reification.object]
    [] reification.predicate.value = "m-ld:tid" ->
         [pair EXCEPT !.tids = Append(@, reification.object.value)]
    [] OTHER -> pair
\* unreify: the statements reduced into pairs by the subject of each, and
\* Object.values of them, in the order in which the subjects first appear
RECURSIVE unreifyFrom(_, _)
unreifyFrom(reifications, rids) ==
  IF reifications = <<>> THEN rids
  ELSE LET r == Head(reifications)
           at == {i \in DOMAIN rids : rids[i].rid = r.subject.value}
       IN  unreifyFrom(Tail(reifications),
             IF at = {}
             THEN Append(rids, unreifyReduce(NoPair(r.subject.value), r))
             ELSE [i \in DOMAIN rids |->
                     IF i \in at THEN unreifyReduce(rids[i], r) ELSE rids[i]])

\* reifyTriplesTids of a map
ReifyTriplesTids(m) ==
  /\ codec' = [op |-> "reify", m |-> m, swaps |-> 0,
               statements |-> reifyTriplesTidsFrom(m, 1), pairs |-> <<>>]
  /\ UNCHANGED <<cloneVars, qsVars, rmVars, rqVars, clVars, lkVars, api, relay, snVars>>
\* the statements come in another order: two of them change places
SwapStatements(i, j) ==
  /\ codec.op = "reify" /\ codec.swaps < MaxSwap
  /\ i < j /\ j <= Len(codec.statements)
  /\ codec' = [codec EXCEPT
       !.swaps = @ + 1,
       !.statements = [@ EXCEPT ![i] = codec.statements[j], ![j] = codec.statements[i]]]
  /\ UNCHANGED <<cloneVars, qsVars, rmVars, rqVars, clVars, lkVars, api, relay, snVars>>
\* unreify of the statements
Unreify ==
  /\ codec.op = "reify"
  /\ codec' = [codec EXCEPT !.op = "unreify",
                            !.pairs = unreifyFrom(codec.statements, <<>>)]
  /\ UNCHANGED <<cloneVars, qsVars, rmVars, rqVars, clVars, lkVars, api, relay, snVars>>

\* maps reified, their statements reordered, and unreified
NextReify ==
  \/ \E m \in ReifyMap : ReifyTriplesTids(m)
  \/ \E i, j \in 1..MaxStatement : SwapStatements(i, j)
  \/ Unreify

SpecReify == Init /\ [][NextReify]_vars

(* ------------- QuadStoreDataset.transact of dataset/index.ts ------------ *)
\* the quads its callers write
QsQuad == {"q1", "q2"}
\* the calls that hold the given AsyncLock: acquired and not yet returned
QsHolders(lock) ==
  {i \in DOMAIN qsCalls : qsCalls[i].lock = lock /\ qsCalls[i].pc # "done"}
\* the prepare of a caller that reads the store and toggles a quad
QsPreparePatch(st, q) ==
  IF q \in st THEN [oldQuads |-> {q}, newQuads |-> {}]
  ELSE [oldQuads |-> {}, newQuads |-> {q}]

\* transact(prepare): new AsyncLock().acquire(this.id, ...).  The lock is
\* made by this call, so nothing holds it and the function starts at once.
QsTransact(q) ==
  /\ Len(qsCalls) < MaxCalls
  /\ LET lock == Len(qsCalls) + 1
     IN  /\ QsHolders(lock) = {}
         /\ qsCalls' = Append(qsCalls, [quad |-> q, lock |-> lock, pc |-> "prepare",
                                        patch |-> EmptyPatch])
  /\ UNCHANGED qsStore
  /\ UNCHANGED <<cloneVars, rmVars, rqVars, clVars, lkVars, codec, api, relay, snVars>>

\* const prep = await prepare(): the prepare reads the store
QsPrepare(i) ==
  /\ i \in DOMAIN qsCalls /\ qsCalls[i].pc = "prepare"
  /\ qsCalls' = [qsCalls EXCEPT ![i].pc = "patch",
                                ![i].patch = QsPreparePatch(qsStore, qsCalls[i].quad)]
  /\ UNCHANGED qsStore
  /\ UNCHANGED <<cloneVars, rmVars, rqVars, clVars, lkVars, codec, api, relay, snVars>>

\* await this.store.patch(patch.oldQuads, patch.newQuads); return rtn
QsPatch(i) ==
  /\ i \in DOMAIN qsCalls /\ qsCalls[i].pc = "patch"
  /\ qsStore' = StorePatch(qsStore, qsCalls[i].patch)
  /\ qsCalls' = [qsCalls EXCEPT ![i].pc = "done"]
  /\ UNCHANGED <<cloneVars, rmVars, rqVars, clVars, lkVars, codec, api, relay, snVars>>

NextQS ==
  \/ \E q \in QsQuad : QsTransact(q)
  \/ \E i \in 1..MaxCalls : QsPrepare(i)
  \/ \E i \in 1..MaxCalls : QsPatch(i)

SpecQS == Init /\ [][NextQS]_vars

(* ----------- applySnapshot over QuadStoreDataset.transact --------------- *)
\* dataset.transact called by applySnapshot: the call takes a lock of its
\* own making, as every call of QuadStoreDataset.transact does
transactCall(calls, id, batch) ==
  Append(calls, [id |-> id, lock |-> Len(calls) + 1, pc |-> "prepare",
                 patch |-> EmptyPatch, batch |-> batch])
\* the prepare of each of the transactions of applySnapshot
applySnapshotPrepare(st, call) ==
  IF call.id = "suset-reset"
  THEN journalReset(st, Target, snapshot.lastHash, snapshot.lastTime,
                    Ticked(Merge(ZeroTime, snapshot.lastTime), Target))
  ELSE IF call.id = "snapshot-tids-batch"
  THEN newTid(call.batch)
  ELSE snapshotBatchPatch(reifyTriplesTids(call.batch))

\* applySnapshot of the snapshot of the responder: the reset of the journal
\* is the first call of dataset.transact, not awaited; the streams are
\* subscribed to
ApplySnapshot ==
  /\ ~snapshot.taken /\ qsCalls = <<>>
  /\ LockFree(Responder) /\ Flushed(Responder)
  /\ LET tail == JournalTail(store[Responder])
     IN  snapshot' = [taken |-> TRUE, from |-> Responder, reset |-> FALSE,
                      lastTime |-> EntryTime(tail), lastHash |-> tail.hash,
                      quads |-> quadsStream(store[Responder]),
                      tids |-> tidsStream(store[Responder]),
                      of |-> store[Responder]]
  /\ qsCalls' = transactCall(qsCalls, "suset-reset", {})
  /\ UNCHANGED <<store, localTime, txn, emitted, delivered, published, minted,
                 result, revup, nTxn, nRedeliver, qsStore>>
  /\ UNCHANGED <<clVars, lkVars, codec, api, relay, snVars, rmVars, rqVars>>

\* the tids stream emits a batch: dataset.transact is called for it
SnapshotTids(batch) ==
  /\ snapshot.taken /\ batch \in Batches(snapshot.tids)
  /\ snapshot' = [snapshot EXCEPT !.tids = @ \ batch]
  /\ qsCalls' = transactCall(qsCalls, "snapshot-tids-batch", batch)
  /\ UNCHANGED <<store, localTime, txn, emitted, delivered, published, minted,
                 result, revup, nTxn, nRedeliver, qsStore>>
  /\ UNCHANGED <<clVars, lkVars, codec, api, relay, snVars, rmVars, rqVars>>

\* the quads stream emits a batch: dataset.transact is called for it
SnapshotQuads(batch) ==
  /\ snapshot.taken /\ batch \in Batches(snapshot.quads)
  /\ snapshot' = [snapshot EXCEPT !.quads = @ \ batch]
  /\ qsCalls' = transactCall(qsCalls, "snapshot-batch", batch)
  /\ UNCHANGED <<store, localTime, txn, emitted, delivered, published, minted,
                 result, revup, nTxn, nRedeliver, qsStore>>
  /\ UNCHANGED <<clVars, lkVars, codec, api, relay, snVars, rmVars, rqVars>>

\* const prep = await prepare(), for a transaction of applySnapshot
SnapshotPrepare(i) ==
  /\ i \in DOMAIN qsCalls /\ qsCalls[i].pc = "prepare"
  /\ QsHolders(qsCalls[i].lock) = {i}
  /\ qsCalls' = [qsCalls EXCEPT ![i].pc = "patch",
                                ![i].patch = applySnapshotPrepare(qsStore, qsCalls[i])]
  /\ UNCHANGED qsStore
  /\ UNCHANGED <<cloneVars, rmVars, rqVars, clVars, lkVars, codec, api, relay, snVars>>

\* the responder writes; its snapshot is applied to an empty dataset
NextApply ==
  \/ \E patch \in InsertsOnly :
       ~snapshot.taken /\ TransactUpTo(Responder, patch, MaxTxn) /\ UNCHANGED api
  \/ Commit(Responder)
  \/ Deliver(Responder)
  \/ ApplySnapshot
  \/ \E batch \in SUBSET snapshot.tids : SnapshotTids(batch)
  \/ \E batch \in SUBSET snapshot.quads : SnapshotQuads(batch)
  \/ \E i \in DOMAIN qsCalls : SnapshotPrepare(i)
  \/ \E i \in DOMAIN qsCalls : QsPatch(i)

SpecApply == Init /\ [][NextApply]_vars

(* ------------------------- journal, in order --------------------------- *)
\* the first entry of the journal: the one no entry points to
HeadTick(st) ==
  CHOOSE t \in {q[2] : q \in GraphQuads(st, "entry")} :
    \A q \in GraphQuads(st, "next") : q[3] # t
RECURSIVE JournalFrom(_, _)
JournalFrom(st, tick) ==
  <<EntryAt(st, tick)>> \o
    (IF HasNext(st, tick) THEN JournalFrom(st, NextTick(st, tick)) ELSE <<>>)
\* the entries of the journal that hold a delta, following entry.next
JournalSeq(st) == Tail(JournalFrom(st, HeadTick(st)))
TidSeq(seq) == [i \in 1..Len(seq) |-> seq[i].tid]
IsPrefix(p, q) == Len(p) <= Len(q) /\ SubSeq(q, 1, Len(p)) = p

C2_DedupNoOp ==
  [][\A c \in Clone :
       (nRedeliver' # nRedeliver /\ localTime'[c] # localTime[c]) =>
         /\ store'[c] = store[c]
         /\ emitted'[c] = emitted[c]
         /\ txn'[c] = txn[c]
         /\ published' = published
         /\ result'[c].value = "null"]_vars
\* a delta applied before was delivered again and rejected
C2_Witness ==
  \E c \in Clone :
    /\ nRedeliver > 0
    /\ result[c].op = "apply" /\ result[c].value = "null"
    /\ result[c].tid \in AllTidsOf(store[c])
    /\ \E e \in Entries(store[c]) : e.tid = result[c].tid /\ e.remoteTime # <<>>

JournalVisible(st) ==
  /\ AllTidsOf(st) = {e.tid : e \in Entries(st)} \ {<<>>}
  /\ {q[3] : q \in GraphQuads(st, "tids")} \subseteq AllTidsOf(st)
C4_AtomicCommit ==
  [][\A c \in Clone :
       /\ JournalVisible(store[c])'
       /\ (txn[c].kind = "transact" /\ txn'[c].kind = "idle") =>
            LET tid == txn[c].tid
                msg == txn[c].value[1]
                st == store'[c]
                tail == JournalTail(st)
            IN  /\ tid \in AllTidsOf(st)
                /\ tail.tid = tid /\ tail.encoded = msg.encoded
                /\ tail.localTime = msg.time /\ tail.tick = Ticks(msg.time, c)
                /\ JournalTime(st) = msg.time
                /\ NextTick(st, JournalTailTick(store[c])) = tail.tick
                /\ \A t \in asDelta(msg.encoded).insert :
                     t \in DataOf(st) /\ tid \in TidsOf(st, t)]_vars
\* a local transaction that inserts a triple has committed
C4_Witness ==
  \E c \in Clone :
    /\ result[c].op = "transact" /\ result[c].value = "delta"
    /\ JournalTail(store[c]).tid = result[c].tid
    /\ \E t \in DataOf(store[c]) : result[c].tid \in TidsOf(store[c], t)

\* C5: when the constraint check rejects a local transaction nothing changes:
\* no quad of any graph (data, TIDs, qs:all, journal entries, tail, time), no
\* update pushed or delivered, no patch prepared and nothing published.
C5_RejectedNoChange ==
  [][\A c \in Clone :
       (nTxn' # nTxn /\ result'[c].value = "ConstraintFailed") =>
         /\ store'[c] = store[c]
         /\ emitted'[c] = emitted[c] /\ delivered'[c] = delivered[c]
         /\ txn'[c] = txn[c]
         /\ published' = published]_vars
\* a write of a second name for fred was rejected
C5_Witness ==
  \E c \in Clone :
    /\ result[c].value = "ConstraintFailed"
    /\ NameTriples(DataOf(store[c])) # {}

\* C7: an update is delivered to the subscribers only after the patch and the
\* journal entry of its transaction are committed.
C7_NotifiedAfterCommit ==
  \A d \in Dataset : \A i \in 1..delivered[d] :
    emitted[d][i].tid \in AllTidsOf(store[d])

C6_SerialInRequestOrder ==
  \A i, j \in DOMAIN qsCalls :
    (i < j /\ qsCalls[j].pc = "patch") => qsCalls[i].pc = "done"

\* the operations a revup is to emit from a journal: the entries after the
\* requester's last-seen tick of the responder, not all less than the
\* requester's time, in journal order
RevupExpected(st, upTo) ==
  LET Missed(e) == /\ e.tick > Ticks(revup.time, Responder)
                   /\ e.tick < upTo
                   /\ AnyLt(revup.time, EntryTime(e))
  IN  SelectSeq(JournalFrom(st, HeadTick(st)), Missed)
RevupEmitsMissed(st, upTo) ==
  LET expected == RevupExpected(st, upTo)
  IN  /\ Len(revup.stream) = Len(expected)
      /\ \A i \in 1..Len(expected) :
           /\ revup.stream[i].tid = expected[i].tid
           /\ revup.stream[i].encoded = expected[i].encoded
           /\ revup.stream[i].time = EntryTime(expected[i])
RevupApplied ==
  /\ revup.state = "complete"
  /\ revup.applied = Len(revup.stream)
  /\ LockFree(Requester)
RevupSameState ==
  /\ DataOf(store[Requester]) = DataOf(revup.of)
  /\ GraphQuads(store[Requester], "tids") = GraphQuads(revup.of, "tids")

\* C10 as stated: the revup emits, in journal order and once each, exactly
\* the entries after the requester's last-seen tick that are not all less
\* than its time, and completes at the journal tail; and any requester that
\* has applied them has the responder's quads and tids.
C10_Revup ==
  /\ revup.state = "walking" => RevupEmitsMissed(store[Responder], revup.cursor)
  /\ revup.state = "complete" =>
        /\ RevupEmitsMissed(revup.of, revup.cursor + 1)
        /\ revup.cursor = JournalTailTick(revup.of)
  /\ RevupApplied => RevupSameState

\* C10, amended: the revup emits the same; a requester that has applied
\* them has applied every delta of the responder's journal, and has the
\* responder's quads and tids when it holds no delta besides: no write of
\* its own that the responder has not applied and no repair that it made
\* while it applied the revup.
C10_RevupCatchesUp ==
  /\ revup.state = "walking" => RevupEmitsMissed(store[Responder], revup.cursor)
  /\ revup.state = "complete" =>
        /\ RevupEmitsMissed(revup.of, revup.cursor + 1)
        /\ revup.cursor = JournalTailTick(revup.of)
  /\ RevupApplied =>
        /\ AllTidsOf(revup.of) \subseteq AllTidsOf(store[Requester])
        /\ AllTidsOf(store[Requester]) = AllTidsOf(revup.of) => RevupSameState
\* a requester that had missed two operations, while the responder had
\* journaled a delta of the requester's after the requester's last-seen
\* tick, has applied the revup and holds what the responder held
C10_Witness ==
  /\ RevupApplied
  /\ AllTidsOf(store[Requester]) = AllTidsOf(revup.of)
  /\ DataOf(revup.of) # {}
  /\ Len(revup.stream) >= 2
  /\ \E e \in Entries(revup.of) :
       /\ e.tick > Ticks(revup.time, Responder)
       /\ ~AnyLt(revup.time, EntryTime(e))
  /\ \E e \in Entries(revup.of) :
       /\ e.tick > Ticks(revup.time, Responder)
       /\ ~AnyLt(revup.time, EntryTime(e))
\* C11 (as stated): when the requester's clock lacks this clone's identity,
\* operationsSince fails with an error
C11_CannotRevupError ==
  (ops.state # "none" /\ ~ops.seen) => ops.outcome = "error"

\* C11 (amended): when the requester's clock lacks this clone's identity and
\* the dataset is open, operationsSince resolves to undefined, with no error,
\* and the reply is Response.Revup(false, this clone's id); it fails only
\* when the dataset is closed
C11_CannotRevupUndefined ==
  /\ (ops.state # "none" /\ ~ops.seen /\ ~closed[Responder]) =>
        /\ ops.outcome = "undefined"
        /\ ops.state = "replied" =>
              ops.reply = <<[canRevup |-> FALSE, updatesAddress |-> Responder]>>
  /\ (ops.state # "none" /\ ops.outcome = "error") <=>
        (ops.state # "none" /\ closed[Responder])

C11_Witness ==
  /\ ops.state = "replied" /\ ~ops.seen /\ ~closed[Responder]
  /\ JournalTailTick(store[Responder]) > 0
  /\ ops.reply[1].canRevup = FALSE

\* C12: when applying a remote delta triggers a constraint repair, the one
\* commit appends exactly two journal entries: the remote delta's, at the
\* arrival time and with the message time as remote time, linked from the old
\* tail, then the repair's, at the local time, with the tail pointing to it;
\* and no journal link is ever changed afterwards, so that nothing is
\* journaled between them
C12_RepairJournaledAfter ==
  [][\A d \in Clone :
       /\ GraphQuads(store[d], "next") \subseteq GraphQuads(store'[d], "next")
       /\ (txn[d].kind = "apply" /\ txn[d].value # <<>> /\ store'[d] # store[d]) =>
            LET old == store[d]
                new == store'[d]
                added == Entries(new) \ Entries(old)
                tail == JournalTailTick(old)
                arrivalTime == [localTime[d] EXCEPT ![d] = @ - 1]
            IN  /\ Entries(old) \subseteq Entries(new)
                /\ Cardinality(added) = 2
                /\ HasNext(new, tail) /\ ~HasNext(old, tail)
                /\ LET entry == EntryAt(new, NextTick(new, tail))
                   IN  /\ entry \in added
                       /\ entry.tid = txn[d].tid
                       /\ entry.localTime = arrivalTime
                       /\ \E m \in published :
                            m.tid = entry.tid /\ entry.remoteTime = <<m.time>>
                       /\ HasNext(new, entry.tick)
                       /\ LET cxEntry == EntryAt(new, NextTick(new, entry.tick))
                          IN  /\ cxEntry \in added /\ cxEntry # entry
                              /\ cxEntry.tid = txn[d].value[1].tid
                              /\ cxEntry.localTime = localTime[d]
                              /\ cxEntry.remoteTime = <<>>
                              /\ JournalTailTick(new) = cxEntry.tick
                              /\ ~HasNext(new, cxEntry.tick)
                              /\ GraphQuads(new, "next") =
                                    GraphQuads(old, "next")
                                      \cup {<<"next", tail, entry.tick>>,
                                            <<"next", entry.tick, cxEntry.tick>>}]_vars

C12_Witness ==
  \E d \in Clone :
    /\ LockFree(d) /\ result[d].op = "apply" /\ result[d].value = "delta"
    /\ JournalTail(store[d]).remoteTime = <<>>
    /\ \E e \in Entries(store[d]) :
         /\ e.remoteTime # <<>> /\ e.tid # <<>>
         /\ HasNext(store[d], e.tick)
         /\ NextTick(store[d], e.tick) = JournalTailTick(store[d])

\* C13: a receiver never re-publishes a remote delta.  apply returns null on
\* a duplicate and when it journals the remote delta alone; when it journals
\* a repair too it returns exactly one DeltaMessage, from this clone, with a
\* transaction id this clone has just made, stamped with the local time and
\* holding the repair delta (no insert, some delete); and what is published
\* when an apply commits is that DeltaMessage and nothing else
C13_ApplyReturnsRepairOnly ==
  [][\A c \in Clone :
       /\ (localTime'[c] # localTime[c] /\ result'[c].op = "apply") =>
            LET tid == result'[c].tid
                value == txn'[c].value
                journaled == {q \in txn'[c].patch.newQuads : q[1] = "entry"}
            IN  IF tid \in AllTidsOf(store[c])
                THEN result'[c].value = "null" /\ txn'[c] = txn[c]
                ELSE /\ txn'[c].kind = "apply" /\ txn'[c].tid = tid
                     /\ Cardinality(journaled) \in {1, 2}
                     /\ Cardinality(journaled) = 1 => value = <<>>
                     /\ Cardinality(journaled) = 2 =>
                          /\ Len(value) = 1
                          /\ value[1].from = c
                          /\ value[1].time = localTime'[c]
                          /\ value[1].tid = uuid(c) /\ value[1].tid # tid
                          /\ \E q \in journaled : q[3].tid = value[1].tid
                                                    /\ q[3].encoded = value[1].encoded
                          /\ asDelta(value[1].encoded).insert = {}
                          /\ asDelta(value[1].encoded).delete # {}
       /\ (txn[c].kind = "apply" /\ txn'[c] = Idle) =>
            /\ published' \ published \subseteq {txn[c].value[i] : i \in 1..Len(txn[c].value)}
            /\ \A m \in published' \ published : m.from = c /\ m.tid # txn[c].tid
            /\ result'[c].value = (IF txn[c].value = <<>> THEN "null" ELSE "delta")]_vars

C13_Witness ==
  \E c \in Clone :
    /\ LockFree(c) /\ result[c].op = "apply" /\ result[c].value = "delta"
    /\ \E m \in published :
         /\ m.from = c /\ m.tid = JournalTail(store[c]).tid
         /\ m.time = JournalTail(store[c]).localTime
         /\ m.tid # result[c].tid
    /\ \A m, n \in published : m.tid = n.tid => m = n

\* the values of the property that subject s is given by the update's
\* inserts, and those stored for it
InsertedValues(s) == {t.o : t \in {u \in cx.update.insert : u.s = s /\ u.p = NameProp}}
StoredValues(s) == {t.o : t \in {u \in DataOf(cx.st) : u.s = s /\ u.p = NameProp}}

\* C14: SingleValued(p).check rejects an update if and only if, for some
\* subject, the values of p the update inserts together with the values of p
\* stored for it number more than one; so it accepts an empty update, an
\* update that does not touch p, and a single-value insert on a subject with
\* no stored value of p
C14_CheckRejectsMultiValued ==
  cx.op = "check" =>
    /\ ~cx.ok <=> \E s \in {Fred, Wilma} :
                    /\ InsertedValues(s) # {}
                    /\ Cardinality(InsertedValues(s) \cup StoredValues(s)) > 1
    /\ cx.update.insert = {} => cx.ok
    /\ (\A t \in cx.update.insert : t.p # NameProp) => cx.ok
    /\ (\A s \in {Fred, Wilma} :
          Cardinality(InsertedValues(s)) <= 1
            /\ (InsertedValues(s) # {} => StoredValues(s) = {})) => cx.ok

\* the test's failing additive update: 'Fred' stored, 'Flintstone' inserted
C14_Witness ==
  /\ cx.op = "check" /\ ~cx.ok
  /\ DataOf(cx.st) = {[s |-> Fred, p |-> NameProp, o |-> FredValue]}
  /\ cx.update.insert = {[s |-> Fred, p |-> NameProp, o |-> Flintstone]}
  /\ cx.update.delete = {}

\* the subjects that the update would leave with more than one value
MultiValued == {s \in {Fred, Wilma} :
                  /\ InsertedValues(s) # {}
                  /\ Cardinality(InsertedValues(s) \cup StoredValues(s)) > 1}
\* the values of subject s that the repair deletes
RepairDeletes(s) ==
  {t.o : t \in {u \in cx.result[1].delete : u.s = s /\ u.p = NameProp}}

\* C15 (as stated): SingleValued(p).apply returns null when every subject
\* touched by the update ends with at most one value of p; otherwise an
\* update with empty @insert whose @delete removes the lexicographically
\* greater values, so that the least value of each subject survives
C15_ApplyDeletesGreater ==
  cx.op = "apply" =>
    /\ MultiValued = {} <=> cx.result = <<>>
    /\ MultiValued # {} =>
          /\ cx.result[1].insert = {}
          /\ \A s \in MultiValued :
               LET values == InsertedValues(s) \cup StoredValues(s)
               IN  \E least \in values :
                     /\ \A v \in values : least <= v
                     /\ RepairDeletes(s) = values \ {least}

\* C15 (amended): as above, but the @delete removes the lexicographically
\* lesser values: of 'Fred' and 'Flintstone' it deletes 'Flintstone', and the
\* greatest value of each subject is the one that survives; nothing else is
\* deleted
C15_ApplyDeletesLesser ==
  cx.op = "apply" =>
    /\ MultiValued = {} <=> cx.result = <<>>
    /\ MultiValued # {} =>
          /\ cx.result[1].insert = {}
          /\ \A t \in cx.result[1].delete : t.p = NameProp /\ t.s \in MultiValued
          /\ \A s \in MultiValued :
               LET values == InsertedValues(s) \cup StoredValues(s)
               IN  \E greatest \in values :
                     /\ \A v \in values : v <= greatest
                     /\ RepairDeletes(s) = values \ {greatest}

\* the test's additive update: 'Fred' stored, 'Flintstone' inserted, and the
\* repair deletes 'Flintstone'
C15_Witness ==
  /\ cx.op = "apply"
  /\ DataOf(cx.st) = {[s |-> Fred, p |-> NameProp, o |-> FredValue]}
  /\ cx.update.insert = {[s |-> Fred, p |-> NameProp, o |-> Flintstone]}
  /\ cx.result = <<[delete |-> {[s |-> Fred, p |-> NameProp, o |-> Flintstone]},
                    insert |-> {}]>>

\* two replicas have the same quads, the same TIDs of each triple and have
\* applied the same transactions
SamePreState(a, b) ==
  /\ DataOf(a) = DataOf(b)
  /\ GraphQuads(a, "tids") = GraphQuads(b, "tids")
  /\ AllTidsOf(a) = AllTidsOf(b)
\* a repair delta at the triple level: inserted triples, deleted triples
\* with the TIDs named for each
RepairTriples(encoded) ==
  [insert |-> asDelta(encoded).insert, delete |-> unreify(asDelta(encoded).delete)]

ConcurrentWritesExchanged(mA, mB) ==
  /\ mA.from = "A" /\ mB.from = "B" /\ nTxn = 2
  /\ ~TimeLeq(mA.time, mB.time) /\ ~TimeLeq(mB.time, mA.time)
  /\ asDelta(mA.encoded).delete = {} /\ asDelta(mB.encoded).delete = {}
  /\ \E t, u \in NameTriples(Triple) :
       /\ t # u /\ t.s = u.s
       /\ asDelta(mA.encoded).insert = {t} /\ asDelta(mB.encoded).insert = {u}
  /\ \A c \in Clone :
       /\ LockFree(c)
       /\ AllTidsOf(store[c]) = {m.tid : m \in published}
\* the constraint repairs that clone c has journaled as its own
OwnRepairs(c, mA, mB) ==
  {e \in Entries(store[c]) :
     /\ e.tid # <<>> /\ e.remoteTime = <<>>
     /\ e.tid \notin {mA.tid, mB.tid}}

\* C17: with the constraint single-valued(name), when two clones concurrently
\* write different names for the same subject and then exchange all deltas,
\* the repairs included, both clones end with the same single name for that
\* subject and each has journaled exactly one constraint repair of its own
C17_ConcurrentWritesConverge ==
  \A mA, mB \in published :
    ConcurrentWritesExchanged(mA, mB) =>
      /\ DataOf(store["A"]) = DataOf(store["B"])
      /\ Cardinality(NameTriples(DataOf(store["A"]))) = 1
      /\ \A c \in Clone :
           /\ Cardinality(OwnRepairs(c, mA, mB)) = 1
           /\ \A e \in OwnRepairs(c, mA, mB) : e.tid[1] = c

C17_Witness ==
  \E mA, mB \in published :
    /\ ConcurrentWritesExchanged(mA, mB)
    /\ Cardinality(published) = 4
    /\ \A c \in Clone : Cardinality(Entries(store[c])) = 5

C19_EchoSuppression ==
  [][/\ \A i \in 1..Len(broadcast') :
          broadcast'[i].by \in Dataset => broadcast'[i].channel = <<broadcast'[i].by>>
     /\ \A c \in Dataset :
          /\ \A i \in 1..Len(nextUpdates'[c]) : nextUpdates'[c][i].channel # <<c>>
          /\ (operations[c] # <<>> /\ operations'[c] = Tail(operations[c])) =>
               LET json == Head(operations[c])
               IN  IF json.channel # <<>> /\ json.channel # <<c>> /\ json.decodable
                   THEN nextUpdates'[c] = Append(nextUpdates[c], json)
                   ELSE json.channel = <<c>> => nextUpdates'[c] = nextUpdates[c]]_vars

\* a clone's own update has come back to it and was dropped, and the other
\* clone has been given it
C19_Witness ==
  \E c, d \in Clone :
    /\ c # d
    /\ \E i \in 1..Len(broadcast) :
         /\ broadcast[i].by = c
         /\ \E j \in 1..Len(nextUpdates[d]) : nextUpdates[d][j] = broadcast[i]
    /\ operations[c] = <<>> /\ nextUpdates[c] = <<>>
    /\ remotes[c].phase = "connected"

\* the sends of remotes c among events i..j of the log, in order
SendsOf(c, i, j) ==
  SelectSeq(SubSeq(sends, i, j), LAMBDA e : e.kind = "send" /\ e.from = c)
\* the presence does not change during events i..j of the log
StablePresence(i, j) == \A k \in i..j : sends[k].kind = "send"
\* the peers other than c present at event i, a send
PeersAt(c, i) == Range(sends[i].present) \ {c}
\* what holds of every send: it is never addressed to the sender; the tried
\* set is reset when every present id has been tried; and with no peer other
\* than the sender present it fails with NoneVisible and publishes nothing
SendRules ==
  \A i \in 1..Len(sends) :
    sends[i].kind = "send" =>
      LET e == sends[i]
      IN  /\ e.toId # <<e.from>>
          /\ e.toId # <<>> => e.toId[1] \in PeersAt(e.from, i)
          /\ Range(e.present) \subseteq e.before => e.after = {e.from} \cup Range(e.toId)
          /\ PeersAt(e.from, i) = {} <=> e.error = "NoneVisible"
          /\ e.error = "NoneVisible" <=> e.toId = <<>>

\* C20 (as stated): peer selection is round-robin: the rules above, and with
\* a stable presence set of n peers other than self, any n consecutive sends
\* of a remotes address n distinct peers
C20_RoundRobin ==
  /\ SendRules
  /\ \A c \in Clone : \A i, j \in 1..Len(sends) :
       (/\ i <= j /\ StablePresence(i, j)
        /\ sends[i].from = c /\ sends[j].from = c
        /\ PeersAt(c, i) # {}
        /\ Len(SendsOf(c, i, j)) = Cardinality(PeersAt(c, i))) =>
         {e.toId : e \in Range(SendsOf(c, i, j))} = {<<p>> : p \in PeersAt(c, i)}

\* C20 (amended): the rules above, and with a stable presence set of n peers
\* other than self, any n consecutive sends of a remotes address n distinct
\* peers once the remotes has, since the presence last changed, made a send
\* with no present peer in its tried set (a reset, or a first send); peers
\* tried before the presence changed stay in the tried set, and the first
\* reset after them starts the round again at the peer just sent to
C20_RoundRobinAfterReset ==
  /\ SendRules
  /\ \A c \in Clone : \A h, i, j \in 1..Len(sends) :
       (/\ h <= i /\ i <= j /\ StablePresence(h, j)
        /\ sends[h].from = c /\ sends[i].from = c /\ sends[j].from = c
        /\ PeersAt(c, i) # {}
        /\ (sends[h].after \ Range(sends[h].toId)) \cap PeersAt(c, h) = {}
        /\ Len(SendsOf(c, i, j)) = Cardinality(PeersAt(c, i))) =>
         {e.toId : e \in Range(SendsOf(c, i, j))} = {<<p>> : p \in PeersAt(c, i)}

\* with two peers present and unchanged, a remotes has sent to one, to the
\* other, reset its tried set and sent to the first again
C20_Witness ==
  \E c \in Clone : \E i \in 1..Len(sends) :
    /\ i + 2 <= Len(sends) /\ StablePresence(i, i + 2)
    /\ \A k \in i..(i + 2) : sends[k].from = c
    /\ Cardinality(PeersAt(c, i)) = 2
    /\ sends[i].toId # sends[i + 1].toId
    /\ sends[i + 2].toId = sends[i].toId
    /\ Range(sends[i + 2].present) \subseteq sends[i + 2].before

\* the futures made by getResponse
Futures == {m \in 1..Len(response) : response[m].state # "none"}
Settled(m) == response[m].state \in {"resolved", "rejected"}
\* a future is pending exactly while its timer runs and its resolver is
\* registered, with the remotes that made it and with no other; a settled
\* future was settled by one call
TimerWhilePending ==
  /\ \A m \in 1..Len(response) :
       /\ response[m].state = "pending" <=> m \in timer
       /\ response[m].state = "pending" <=> m \in replyResolvers[response[m].owner]
       /\ Settled(m) <=> response[m].settles = 1
       /\ response[m].settles <= 1
  /\ \A c \in Dataset : \A m \in replyResolvers[c] :
       m \in 1..Len(response) /\ response[m].owner = c
\* the replies given to their remotes in this step
RepliesGiven == replyTopic \ replyTopic'
\* in one step: a settled future stays as it is; a reply given to a remotes
\* whose timer for the message replied to is running resolves the future with
\* the body of the reply, and any other reply changes nothing; a future is
\* rejected with the timeout error only
SettleStep ==
  /\ \A m \in 1..Len(response) :
       /\ m \in 1..Len(response')
       /\ Settled(m) =>
            /\ response'[m].state = response[m].state
            /\ response'[m].value = response[m].value
            /\ response'[m].settles = response[m].settles
       /\ response[m].state = "pending" /\ response'[m].state = "rejected" =>
            response'[m].value = TimeoutError /\ RepliesGiven = {}
       /\ response[m].state = "pending" /\ response'[m].state = "resolved" =>
            \E r \in RepliesGiven :
              r.sentMessageId = m /\ r.toId = response[m].owner
  /\ \A r \in RepliesGiven :
       IF r.sentMessageId \in timer /\ response[r.sentMessageId].owner = r.toId
       THEN /\ response'[r.sentMessageId].state = "resolved"
            /\ response'[r.sentMessageId].value = r.body
            /\ response'[r.sentMessageId].settles = 1
       ELSE UNCHANGED <<response, replyResolvers, timer, sentTopic, consuming>>
\* a pending future is settled in the end
SettlesInTheEnd ==
  \A m \in MessageId :
    (m \in Futures /\ response[m].state = "pending") ~> (m \in Futures /\ Settled(m))

\* C21: every request future settles exactly once: it resolves with the
\* reply when a reply to its message id is given to the remotes while its
\* timer runs, and otherwise it is rejected with the timeout error; a reply
\* that comes after the timeout, or to an unknown message id, is dropped and
\* changes nothing
C21_RequestSettlesOnce ==
  /\ []TimerWhilePending
  /\ [][SettleStep]_vars
  /\ SettlesInTheEnd

\* a request was resolved by its reply, and the replies that came after it
\* have all been dropped
C21_Witness ==
  \E m \in Futures :
    /\ response[m].req = "NewClock"
    /\ response[m].state = "resolved"
    /\ response[m].value.type = "NewClock"
    /\ response[m].settles = 1
    /\ nForeign = MaxForeign
    /\ replyTopic = {}

\* the responses that expect an ack: the reply messages with streams
Streamed == {m \in 1..Len(response) : response[m].produces # <<>>}
\* the request a streamed response answers, and its requester
RequestOf(m) == response[m].produces[1][1]
RequesterOf(m) == response[RequestOf(m)].owner
\* the requester has sent its ack of response m
AckSent(m) ==
  \/ response[RequestOf(m)].ack = "resolved"
  \/ \E r \in replyTopic : r.sentMessageId = m /\ r.body = NullBody

\* C22: the responder publishes no notification on a stream address, and
\* subscribes to no observable, before it has received the requester's ack;
\* the requester sends the ack only after it has subscribed to every stream
\* address named in the reply, so that it is given every notification from
\* the first; and when the ack has not come within the timeout the responder
\* never starts streaming
C22_AckBeforeStreaming ==
  /\ \A m \in Streamed : \A a \in Range(response[m].produces) :
       /\ (a \in DOMAIN producing \/ StreamOf(a) # <<>>) =>
            /\ response[m].state = "resolved"
            /\ AckSent(m)
            /\ a \in consuming[RequesterOf(m)]
       /\ AckSent(m) => a \in consuming[RequesterOf(m)]
       /\ response[m].state = "rejected" =>
            a \notin DOMAIN producing /\ StreamOf(a) = <<>>
  /\ \A a \in DOMAIN consumed : consumed[a].from = 0

\* the data and the updates of a snapshot have both been streamed to the
\* requester, which was given the first notification of each
C22_Witness ==
  \E m \in Streamed :
    /\ Len(response[m].produces) = 2
    /\ \A a \in Range(response[m].produces) :
         /\ a \in DOMAIN consumed
         /\ Len(StreamOf(a)) >= 1
         /\ consumed[a].cursor >= 1

\* the places of the terminal notifications, complete or error, in a stream
Terminals(stream) == {i \in 1..Len(stream) : stream[i].kind # "next"}

\* C23: on each streamed address the notifications are published in the
\* order the producer emitted them, and the stream ends with one terminal
\* notification, complete or error, after which nothing more is published
\* on the address, also when the conversion or the publication of one of the
\* next notifications fails midway
C23_OrderedOneTerminal ==
  \A a \in DOMAIN streams :
    /\ \A i, j \in 1..Len(streams[a]) :
         i < j /\ streams[a][i].kind = "next" /\ streams[a][j].kind = "next" =>
           streams[a][i].n < streams[a][j].n
    /\ Cardinality(Terminals(streams[a])) <= 1
    /\ \A i \in Terminals(streams[a]) : i = Len(streams[a])

\* in one step: a closed dataset stays closed and as it is, and a call of
\* one of its methods is rejected; a revup stream of a closed dataset that
\* has an entry to emit fails and emits no more
ClosedStep ==
  /\ \A d \in Clone :
       closed[d] =>
         /\ closed'[d]
         /\ store'[d] = store[d] /\ txn'[d] = txn[d]
         /\ emitted'[d] = emitted[d] /\ minted'[d] = minted[d]
         /\ (result'[d] # result[d] =>
               result'[d].value = "Clone has closed" /\ result'[d].op \in Methods)
  /\ (closed[Responder] /\ revup.state = "walking" /\ revup' # revup) =>
       revup' = [revup EXCEPT !.state = "Clone has closed"]
  /\ (closed[Responder] /\ revup.state # "walking") => revup' = revup
  /\ revup'.state = "Clone has closed" => closed[Responder]

NoHandlerStays ==
  \A c \in Clone : closing[c].closed => replyResolvers[c] = {}
\* the request futures pending at close are rejected, with an error that is
\* not the timeout error
RejectedAsClosed ==
  \A c \in Clone : \A m \in closing[c].inFlight :
    response[m].state = "rejected" /\ response[m].value # TimeoutError
\* the connection is ended only after the local clone has been unset
EndedAfterUnset ==
  \A c \in Clone : closing[c].ended => ~localClone[c]

\* C25: closing the remotes cancels every in-flight request: after close
\* every request future that was pending is rejected with a clone-closed
\* error, no reply handler stays registered, and the connection is ended
\* only after the local clone has been unset
C25_CloseCancelsRequests ==
  /\ NoHandlerStays
  /\ RejectedAsClosed
  /\ EndedAfterUnset

\* dataset i has initialised, or is past the acquire of its initialise
HoldsLock(i) == datasets[i].state \in {"acquired", "open"}
\* the datasets of location l that hold its lock
HoldersAt(l) == {i \in Instance : HoldsLock(i) /\ datasets[i].location = l}
\* the lock of a location has one holder at most; a dataset holds it from
\* its initialise to its close, and no closed or refused dataset holds it
LockHeld ==
  \A l \in Location :
    /\ Cardinality(HoldersAt(l)) <= 1
    /\ \A i \in HoldersAt(l) : datasetLock[l] = i
    /\ datasetLock[l] # NoHolder => datasetLock[l] \in HoldersAt(l)
    /\ journals[l] <= 1
\* an initialise on a held lock fails with 'Clone data is locked' and
\* leaves lock and journals as they are; one on a free lock acquires it;
\* a journal is created by a dataset that holds the lock
LockStep ==
  \A i \in Instance :
    LET l == datasets[i].location
    IN /\ (datasets[i].state \in {"new", "Clone data is locked"}
           /\ datasets'[i] # datasets[i] /\ datasets'[i].state # "closed")
          => IF datasetLock[l] = NoHolder
             THEN datasets'[i].state = "acquired" /\ datasetLock'[l] = i
             ELSE /\ datasets'[i].state = "Clone data is locked"
                  /\ datasetLock' = datasetLock /\ journals' = journals
       /\ (HoldsLock(i) /\ datasets'[i].state = "closed") => datasetLock'[l] = NoHolder
       /\ (datasets[i].state = "Clone data is locked" /\ datasets'[i].state = "closed")
          => datasetLock' = datasetLock
\* C26: at most one open dataset holds the lock of a storage location at any
\* time: initialise fails with 'Clone data is locked' and creates no journal
\* when the lock is held, the lock is held from a successful initialise
\* until close, and close releases it so that a later initialise on the
\* same location succeeds
C26_OneHolderOfLocation == []LockHeld /\ [][LockStep]_vars
\* a dataset refused while another held the lock has initialised on the
\* same location after the other closed
C26_Witness ==
  \E i, j \in Instance :
    /\ datasets[i].state = "open" /\ datasets[i].refused > 0
    /\ datasets[j].state = "closed" /\ datasets[j].location = datasets[i].location
    /\ journals[datasets[i].location] = 1

\* the places in emitted[c] of the updates of local transactions
LocalUpdates(c) == {i \in 1..Len(emitted[c]) : emitted[c][i].tid[1] = c}
TicksAt(c, i) == emitted[c][i].update.ticks
\* i and j are successive local updates of c
Successive(c, i, j) ==
  /\ i \in LocalUpdates(c) /\ j \in LocalUpdates(c) /\ i < j
  /\ \A k \in LocalUpdates(c) : ~(i < k /\ k < j)
TickStep ==
  /\ nTxn' # nTxn =>
       \/ \E c \in Clone :
            /\ minted'[c] = minted[c] + 1
            /\ localTime' = [localTime EXCEPT ![c] = Ticked(localTime[c], c)]
            /\ Len(emitted'[c]) = Len(emitted[c]) + 1
            /\ emitted'[c][Len(emitted'[c])].update.ticks = Ticks(localTime[c], c) + 1
       \/ /\ \E c \in Clone : result'[c].value = "ConstraintFailed"
          /\ UNCHANGED <<localTime, emitted, minted>>
  /\ \A d \in Dataset : (~LockFree(d) /\ LockFree(d)') => localTime' = localTime
\* the ticks notified by a clone increase; local updates next to each other
\* differ by 1, and those of a clone that has applied no delta count its
\* committed writes
TicksCount ==
  \A c \in Clone :
    /\ \A i, j \in 1..Len(emitted[c]) : i < j => TicksAt(c, i) < TicksAt(c, j)
    /\ \A i \in 1..Len(emitted[c]) - 1 :
         (i \in LocalUpdates(c) /\ i + 1 \in LocalUpdates(c))
           => TicksAt(c, i + 1) = TicksAt(c, i) + 1
    /\ LocalUpdates(c) = 1..Len(emitted[c])
         => \A i \in LocalUpdates(c) : TicksAt(c, i) = i
ReadIsolated ==
  api.read.by # 0 =>
    api.read.tids = api.read.own \cup UNION {api.wrote[j] : j \in api.read.ended}
\* a procedure has written only when those submitted before it have ended
WritesAfterEnd ==
  \A j \in 1..Len(api.todo) :
    api.made[j] > 0 => \A k \in 1..(j - 1) : k \in api.ended
PublishedOf(c) ==
  LET own == SelectSeq(broadcast, LAMBDA json : json.by = c)
  IN  [i \in 1..Len(own) |-> own[i].n]
RelayedInOrder ==
  \A c \in Clone :
    LET pub == PublishedOf(c)
        out == {relay[c].outgoing[i] : i \in 1..Len(relay[c].outgoing)}
    IN  /\ \A i, j \in 1..Len(pub) : i < j => pub[i] < pub[j]
        /\ relay[c].delivered \subseteq Range(pub)
        /\ Range(pub) \subseteq relay[c].delivered \cup relay[c].failed
        /\ 1..relay[c].emitted =
             out \cup relay[c].ignored \cup relay[c].delivered \cup relay[c].failed
        /\ Cardinality(out) + Cardinality(relay[c].ignored)
             + Cardinality(relay[c].delivered) + Cardinality(relay[c].failed)
             = relay[c].emitted
\* a delta committed while online is given to mqtt.publish, one committed
\* while offline is not
RelayStep ==
  \A c \in Clone :
    relay'[c].emitted # relay[c].emitted =>
      IF isOnline(c)
      THEN relay'[c].outgoing = Append(relay[c].outgoing, relay'[c].emitted)
      ELSE relay'[c].outgoing = relay[c].outgoing
Applying(c) == CHOOSE m \in published : m.tid = txn[c].tid
\* the deletes of that delta, one (triple, tids) pair for each
DeletesOf(m) == unreify(asDelta(m.encoded).delete)
\* the store of c once the prepared transaction is committed
Committed(c) == StorePatch(store[c], txn[c].patch)
Transacting(c) == txn[c].value[1]
\* C32: a local transaction's delta names, for each deleted triple, exactly
\* the tids mapped to that triple in the tid index when the transaction
\* was made; the commit of the transaction removes all those mappings and
\* maps every inserted triple to the transaction's own tid
C32_DeltaNamesDeletedTids ==
  \A c \in Clone :
    txn[c].kind = "transact" =>
      /\ \A r \in DeletesOf(Transacting(c)) :
           /\ r.tids = TidsOf(store[c], r.triple)
           /\ TidsOf(Committed(c), r.triple) \cap r.tids = {}
      /\ {r.triple : r \in DeletesOf(Transacting(c))}
           = TriplesOf({q \in txn[c].patch.oldQuads : q[1] = "data"})
      /\ \A t \in asDelta(Transacting(c).encoded).insert :
           txn[c].tid \in TidsOf(Committed(c), t)
\* a transaction that deletes a triple mapped to a tid and inserts another
\* is prepared
C32_Witness ==
  \E c \in Clone :
    /\ txn[c].kind = "transact"
    /\ \E r \in DeletesOf(Transacting(c)) : TidsOf(store[c], r.triple) # {}
    /\ asDelta(Transacting(c).encoded).insert # {}

\* the triples that the delta being applied by c inserts and that the repair
\* of the constraint, made in the same transaction, deletes
RepairedInserts(c) ==
  IF txn[c].kind = "apply" /\ txn[c].value # <<>>
  THEN {r.triple : r \in DeletesOf(txn[c].value[1])}
         \cap asDelta(Applying(c).encoded).insert
  ELSE {}
\* the tids that the repair delta prepared by c names for the triple t, over
\* all its reified deletes of t
RepairNames(c, t) ==
  UNION {r.tids : r \in {x \in DeletesOf(txn[c].value[1]) : x.triple = t}}
\* what apply removes from the store st for the repair delta's deletes of t
RepairRemovals(c, t, st) ==
  {tripleTidRemoval(st, r.triple, r.tids) :
     r \in {x \in DeletesOf(txn[c].value[1]) : x.triple = t}}
\* C33: a triple inserted by a remote delta and deleted by the repair of
\* that delta is neither in the data graph nor in the tid index of the
\* repairing clone once the transaction is committed; the repair delta's
\* reified delete of the triple names the remote delta's tid (and no other),
\* so that a clone that maps the remote delta's tid to the triple removes
\* the mapping on applying the repair's deletes, and the triple with it when
\* no other tid is mapped
C33_RepairedInsertNeverEnters ==
  \A c \in Clone : \A t \in RepairedInserts(c) :
    /\ t \notin DataOf(Committed(c))
    /\ TidsOf(Committed(c), t) = {}
    /\ RepairNames(c, t) = {txn[c].tid}
    /\ \A d \in Clone \ {c} :
         txn[c].tid \in TidsOf(store[d], t) =>
           LET rm == RepairRemovals(c, t, store[d])
           IN  /\ <<"tids", t, txn[c].tid>> \in UNION {r.toRemove : r \in rm}
               /\ TidsOf(store[d], t) = {txn[c].tid}
                    => toDomainQuad(t) \in UNION {r.oldQuads : r \in rm}
\* a clone repairs a remote delta by deleting the triple the delta inserts,
\* which the other clone holds with the delta's tid
C33_Witness ==
  \E c \in Clone : \E t \in RepairedInserts(c) :
    /\ t \notin DataOf(store[c])
    /\ \E d \in Clone \ {c} : TidsOf(store[d], t) = {txn[c].tid}

\* C34: the streams of a snapshot hold nothing that a transaction committed
\* after the journal tail of the snapshot was read has written: every entry
\* of the quads stream, and every tid of the tids stream, is in the store
\* that takeSnapshot read the tail from, whenever the streams are subscribed
C34_SnapshotAtTail ==
  /\ taking.quads # "cold" => taking.quadsRead \subseteq quadsStream(taking.held)
  /\ taking.tids # "cold" => taking.tidsRead \subseteq tidsStream(taking.held)
\* the quads stream alone is read from the store of the tail
C34_QuadsAtTail ==
  taking.quads # "cold" => taking.quadsRead = quadsStream(taking.held)
\* the quads stream has been read after a write, under the lock
C34_Witness ==
  /\ taking.quads = "complete" /\ taking.quadsRead # {}
  /\ AllTidsOf(store[Responder]) # AllTidsOf(taking.held)

\* C35: every takeSnapshot releases the transaction lock in the end
C35_SnapshotReleasesLock ==
  (taking.state = "locked") ~> (taking.state = "released")

\* C36: in applySnapshot the reset of the journal is committed before any
\* batch of tids and any batch of quads is committed
C36_ResetCommittedFirst ==
  \A i \in DOMAIN qsCalls :
    (qsCalls[i].id # "suset-reset" /\ qsCalls[i].pc = "done")
      => \E j \in DOMAIN qsCalls :
           qsCalls[j].id = "suset-reset" /\ qsCalls[j].pc = "done"

\* the peers present at the i-th request of the revup, and whether the
\* presence was the same at all the requests
AskPeers(i) == Range(asking.asked[i].present) \ {Requester}
AskStable ==
  \A i \in DOMAIN asking.asked : asking.asked[i].present = asking.asked[1].present
\* what holds of every revupFrom: a request is sent for each refusal of a
\* peer not yet recorded and for nothing else, never to the requester; the
\* updates are those of the peer asked last; undefined is returned when the
\* peer asked last had refused before; with the same presence of n peers at
\* all the requests there are at most n + 1 requests
AskRules ==
  /\ \A i \in DOMAIN asking.asked :
       /\ asking.asked[i].toId \in AskPeers(i)
       /\ i > 1 => /\ asking.asked[i - 1].toId \notin asking.asked[i - 1].tried
                   /\ asking.asked[i].tried =
                        asking.asked[i - 1].tried \cup {asking.asked[i - 1].toId}
  /\ asking.asked # <<>> => asking.asked[1].tried = {}
  /\ asking.state = "undefined"
       => asking.asked[Len(asking.asked)].toId \in asking.asked[Len(asking.asked)].tried
  /\ asking.state = "updates"
       => asking.tried = asking.asked[Len(asking.asked)].tried
  /\ (asking.asked # <<>> /\ AskStable)
       => Len(asking.asked) <= Cardinality(AskPeers(1)) + 1
\* C37 as stated: moreover, while a present peer has not refused, the
\* request that follows a refusal is addressed to a peer that has not refused
C37_RevupAsksAnother ==
  /\ AskRules
  /\ \A i \in DOMAIN asking.asked :
       AskPeers(i) \ asking.asked[i].tried # {}
         => asking.asked[i].toId \notin asking.asked[i].tried
\* C37: revupFrom ends after at most n + 1 requests with a stable presence
\* of n peers: it returns the updates of the first peer that can revup, sends
\* another request each time a peer not yet recorded refuses, and returns
\* undefined as soon as a peer that has refused refuses again; whatever the
\* presence does, the requests are at most one more than the peers there are
\* (the request that follows a refusal goes to the next peer of the round
\* robin of send, which can be a peer that has refused while another has not
\* been asked)
C37_RevupEnds ==
  /\ AskRules
  /\ Len(asking.asked) <= Cardinality(Dataset \ {Requester}) + 1
  /\ asking.tried \subseteq Dataset \ {Requester}
\* with two peers present at every request, one refuses, the other refuses,
\* the first refuses again: undefined after three requests
C37_Witness ==
  /\ asking.state = "undefined" /\ Len(asking.asked) = 3 /\ AskStable
  /\ Cardinality(asking.tried) = 2

\* every change of presence has been heard of and every read has completed
PresenceStable == onlineState.changes = PresenceChanges /\ onlineState.reads = <<>>
C38_StableStatus ==
  (PresenceStable /\ onlineState.changes > 0 /\ ~onlineState.closed)
    => onlineState.status = IF isOnline(Requester) THEN "true" ELSE "false"
\* the second part alone
C38_NullWhileClosed == onlineState.closed => onlineState.status = "null"

\* the updates that clone c has notified of the delta it is applying
ApplyUpdates(c) ==
  {emitted[c][i].update : i \in {j \in DOMAIN emitted[c] : emitted[c][j].tid = txn[c].tid}}
\* C39: the update notified of a remote delta that is applied lists in its
\* @delete only triples that were in the data graph of the receiver before
\* the delta was applied
C39_DeleteOnlyPresent ==
  \A c \in Clone :
    txn[c].kind = "apply" =>
      \A u \in ApplyUpdates(c) : u.delete \subseteq DataOf(store[c])

\* C40: unreify of reifyTriplesTids of a map from triples with named-node
\* subject and predicate to non-empty lists of tids gives one pair for each
\* entry of the map, with the triple and the tids of the entry, whatever the
\* order of the statements
C40_ReifyRoundTrip ==
  codec.op = "unreify" =>
    /\ Len(codec.pairs) = Len(codec.m)
    /\ \A i \in DOMAIN codec.m :
         \E j \in DOMAIN codec.pairs :
           /\ codec.pairs[j].triple = codec.m[i].triple
           /\ Len(codec.pairs[j].tids) = Len(codec.m[i].tids)
           /\ Range(codec.pairs[j].tids) = Range(codec.m[i].tids)
\* a map of two entries, one of two tids, unreified from statements that
\* have changed places
C40_Witness ==
  /\ codec.op = "unreify" /\ codec.swaps = MaxSwap
  /\ Len(codec.m) = 2 /\ Len(codec.m[1].tids) = 2
  /\ codec.statements # reifyTriplesTidsFrom(codec.m, 1)
  /\ codec.statements[1].subject # codec.statements[2].subject

====
